---------------------------- MODULE Spec2Model ----------------------------
(***************************************************************************)
(* Model of the PCI circularity core (computeCircularityIndicators and its *)
(* helpers) together with the caller-owned records it is invoked on.       *)
(*                                                                         *)
(* Numbers.  A JavaScript value that takes part in arithmetic is a record  *)
(* [k, n, d]:  k = "num" is the finite number n/d (d > 0, lowest terms),   *)
(* "nan", "inf", "ninf" are NaN, +Infinity, -Infinity, "undef" is          *)
(* undefined, "null" is null, "str" a non-numeric string and "numstr" the   *)
(* numeric string whose value is n/d.  Finite arithmetic is exact rational *)
(* arithmetic: the rounding of IEEE-754 doubles is not modelled.           *)
(***************************************************************************)
EXTENDS Integers, Sequences, FiniteSets, TLC

VARIABLES
  components,     \* the caller's component list handed to the core
  productParams,  \* the caller's product-parameter record
  outcome,        \* what the last invocation returned or threw
  upload,         \* the text of the CSV file chosen for upload
  ui              \* the page: last computation, chart order, status, charts, download

vars == <<components, productParams, outcome, upload, ui>>

---------------------------------------------------------------------------
(* Exact rationals *)

RECURSIVE GCD(_, _)
GCD(a, b) == IF b = 0 THEN a ELSE GCD(b, a % b)

AbsInt(x) == IF x < 0 THEN -x ELSE x

\* The finite number n/d in lowest terms with a positive denominator.
R(n, d) ==
  LET s == IF d < 0 THEN -1 ELSE 1
      g == GCD(AbsInt(n), AbsInt(d))
  IN  [k |-> "num", n |-> (s * n) \div g, d |-> (s * d) \div g]

Zero == [k |-> "num", n |-> 0, d |-> 1]
One == [k |-> "num", n |-> 1, d |-> 1]
Half == [k |-> "num", n |-> 1, d |-> 2]
Hundred == [k |-> "num", n |-> 100, d |-> 1]
NaN == [k |-> "nan", n |-> 0, d |-> 1]
Infinity == [k |-> "inf", n |-> 0, d |-> 1]
NegInfinity == [k |-> "ninf", n |-> 0, d |-> 1]
Undefined == [k |-> "undef", n |-> 0, d |-> 1]
Null == [k |-> "null", n |-> 0, d |-> 1]
NonNumericString == [k |-> "str", n |-> 0, d |-> 1]
NumericString(n, d) == [k |-> "numstr", n |-> R(n, d).n, d |-> R(n, d).d]

\* a < b for finite a, b, by comparing continued-fraction expansions: no
\* product of a numerator with a denominator is formed, so comparing with
\* EPSILON = 1/10^9 stays inside TLC's integers.
RECURSIVE FracLess(_, _, _, _)
FracLess(an, ad, bn, bd) ==
  LET fa == an \div ad
      fb == bn \div bd
      ra == an - fa * ad
      rb == bn - fb * bd
  IN  IF fa # fb THEN fa < fb
      ELSE IF rb = 0 THEN FALSE
      ELSE IF ra = 0 THEN TRUE
      ELSE FracLess(bd, rb, ad, ra)

Sign(a) ==
  CASE a.k = "inf" -> 1
    [] a.k = "ninf" -> -1
    [] OTHER -> IF a.n > 0 THEN 1 ELSE IF a.n < 0 THEN -1 ELSE 0

---------------------------------------------------------------------------
(* JavaScript number semantics *)

\* ToNumber: Number(v), and the coercion every arithmetic operator applies.
Number(v) ==
  CASE v.k = "num" -> v
    [] v.k = "numstr" -> [k |-> "num", n |-> v.n, d |-> v.d]
    [] v.k = "undef" -> NaN
    [] v.k = "null" -> Zero
    [] v.k = "str" -> NaN
    [] OTHER -> v

isFinite(v) == Number(v).k = "num"

\* a < b on numbers (false when either is NaN).
NumLess(a, b) ==
  CASE a.k = "nan" \/ b.k = "nan" -> FALSE
    [] a.k = "inf" -> FALSE
    [] b.k = "ninf" -> FALSE
    [] a.k = "ninf" -> TRUE
    [] b.k = "inf" -> TRUE
    [] OTHER -> FracLess(a.n, a.d, b.n, b.d)

Lt(a, b) == NumLess(Number(a), Number(b))
Gt(a, b) == NumLess(Number(b), Number(a))
Le(a, b) ==
  LET x == Number(a)
      y == Number(b)
  IN  x.k # "nan" /\ y.k # "nan" /\ ~NumLess(y, x)
Ge(a, b) == Le(b, a)

\* Products and quotients cancel common factors before multiplying.
FinMul(a, b) ==
  LET g1 == GCD(AbsInt(a.n), b.d)
      g2 == GCD(AbsInt(b.n), a.d)
  IN  R((a.n \div g1) * (b.n \div g2), (a.d \div g2) * (b.d \div g1))

FinAdd(a, b) ==
  LET g == GCD(a.d, b.d)
  IN  R(a.n * (b.d \div g) + b.n * (a.d \div g), (a.d \div g) * b.d)

Neg(a) ==
  CASE a.k = "num" -> [k |-> "num", n |-> -a.n, d |-> a.d]
    [] a.k = "inf" -> NegInfinity
    [] a.k = "ninf" -> Infinity
    [] OTHER -> NaN

MulNum(x, y) ==
  CASE x.k = "nan" \/ y.k = "nan" -> NaN
    [] x.k = "num" /\ y.k = "num" -> FinMul(x, y)
    [] Sign(x) * Sign(y) = 0 -> NaN
    [] Sign(x) * Sign(y) > 0 -> Infinity
    [] OTHER -> NegInfinity

\* 1/y.  A zero is taken as +0 (the model has no signed zero); the core
\* guards every divisor with a comparison against 0 before dividing.
Recip(y) ==
  CASE y.k = "nan" -> NaN
    [] y.k \in {"inf", "ninf"} -> Zero
    [] y.n = 0 -> Infinity
    [] OTHER -> R(y.d, y.n)

AddNum(x, y) ==
  CASE x.k = "nan" \/ y.k = "nan" -> NaN
    [] x.k = "num" /\ y.k = "num" -> FinAdd(x, y)
    [] x.k = "num" -> y
    [] y.k = "num" -> x
    [] x.k = y.k -> x
    [] OTHER -> NaN

Mul(a, b) == MulNum(Number(a), Number(b))
Div(a, b) ==
  LET x == Number(a)
      y == Number(b)
  IN  IF x.k = "num" /\ y.k = "num" /\ x.n = 0 /\ y.n = 0 THEN NaN
      ELSE IF x.k \in {"inf", "ninf"} /\ y.k \in {"inf", "ninf"} THEN NaN
      ELSE MulNum(x, Recip(y))
Add(a, b) == AddNum(Number(a), Number(b))
Sub(a, b) == AddNum(Number(a), Neg(Number(b)))

\* Math.abs, Math.min, Math.max of two arguments.
MathAbs(a) ==
  LET x == Number(a)
  IN  IF x.k = "nan" THEN NaN ELSE IF Sign(x) < 0 THEN Neg(x) ELSE x
MathMin(a, b) ==
  LET x == Number(a)
      y == Number(b)
  IN  IF x.k = "nan" \/ y.k = "nan" THEN NaN
      ELSE IF NumLess(y, x) THEN y ELSE x
MathMax(a, b) ==
  LET x == Number(a)
      y == Number(b)
  IN  IF x.k = "nan" \/ y.k = "nan" THEN NaN
      ELSE IF NumLess(x, y) THEN y ELSE x

---------------------------------------------------------------------------
(* Exceptions: a call either returns a value or throws an Error whose      *)
(* message is a fixed text, with the component id interpolated into it     *)
(* kept apart in `id`.                                                     *)

Return(v) == [thrown |-> FALSE, message |-> "", id |-> "", value |-> v]
Throw(msg, id) == [thrown |-> TRUE, message |-> msg, id |-> id, value |-> Undefined]

\* Array.prototype.map with a callback that may throw: the first element
\* whose callback throws ends the loop with that Error.
MapOrThrow(results) ==
  IF \E i \in DOMAIN results : results[i].thrown
    THEN results[CHOOSE i \in DOMAIN results :
                   /\ results[i].thrown
                   /\ \A j \in DOMAIN results : results[j].thrown => i <= j]
    ELSE Return([i \in DOMAIN results |-> results[i].value])

\* Array.prototype.reduce((sum, x) => sum + x, 0) over a list of numbers.
RECURSIVE SumFrom(_, _, _)
SumFrom(list, i, sum) ==
  IF i > Len(list) THEN sum ELSE SumFrom(list, i + 1, Add(sum, list[i]))

Sum(list) == SumFrom(list, 1, Zero)

\* value ?? fallback
Coalesce(value, fallback) ==
  IF value.k \in {"undef", "null"} THEN fallback ELSE value

---------------------------------------------------------------------------
(* The core *)

EPSILON == [k |-> "num", n |-> 1, d |-> 1000000000]

FactorKeys == {"Fr", "Efp", "Ecp", "Cfp", "Ccp", "Ems", "Erfp"}

\* clamp01 without the lower bound.
clamp01_NoLowerBound(value) ==
  IF ~isFinite(value) THEN Zero
  ELSE MathMin(One, value)

clamp01(value) ==
  IF ~isFinite(value) THEN Zero
  ELSE MathMin(One, MathMax(Zero, value))

clampPercentage(value) ==
  IF ~isFinite(value) THEN Zero
  ELSE MathMin(Hundred, MathMax(Zero, value))

\* sanitizeComponent assigning the sanitized values to the caller's record
\* instead of a copy.
sanitizeComponent_InPlace(component) ==
  LET mass == Number(component.massKg)
      sanitized == [key \in DOMAIN component |->
                      IF key = "massKg" THEN mass
                      ELSE IF key \in FactorKeys
                        THEN LET value == Number(component[key])
                             IN  clamp01(IF isFinite(value) THEN value ELSE Zero)
                        ELSE component[key]]
  IN  IF ~isFinite(mass) \/ Le(mass, Zero)
        THEN [thrown |-> TRUE,
              message |-> "Component must have a positive mass in kg.",
              id |-> component.id, value |-> Undefined, input |-> component]
        ELSE [thrown |-> FALSE, message |-> "", id |-> "",
              value |-> sanitized, input |-> sanitized]

\* sanitizeComponent rejecting only negative masses.
sanitizeComponent_ZeroMassAllowed(component) ==
  LET mass == Number(component.massKg)
  IN  IF ~isFinite(mass) \/ Lt(mass, Zero)
        THEN [thrown |-> TRUE,
              message |-> "Component must have a positive mass in kg.",
              id |-> component.id, value |-> Undefined, input |-> component]
        ELSE [thrown |-> FALSE, message |-> "", id |-> "",
              value |-> [key \in DOMAIN component |->
                           IF key = "massKg" THEN mass
                           ELSE IF key \in FactorKeys
                             THEN LET value == Number(component[key])
                                  IN  clamp01(IF isFinite(value) THEN value ELSE Zero)
                             ELSE component[key]],
              input |-> component]

\* sanitizeComponent coercing the factors without clamping them.
sanitizeComponent_Unclamped(component) ==
  LET mass == Number(component.massKg)
  IN  IF ~isFinite(mass) \/ Le(mass, Zero)
        THEN [thrown |-> TRUE,
              message |-> "Component must have a positive mass in kg.",
              id |-> component.id, value |-> Undefined, input |-> component]
        ELSE [thrown |-> FALSE, message |-> "", id |-> "",
              value |-> [key \in DOMAIN component |->
                           IF key = "massKg" THEN mass
                           ELSE IF key \in FactorKeys
                             THEN LET value == Number(component[key])
                                  IN  IF isFinite(value) THEN value ELSE Zero
                             ELSE component[key]],
              input |-> component]

\* The result carries the two objects sanitizeComponent leaves behind:
\* `value`, the fresh clone it returns, and `input`, the caller's record
\* after the call.  Every assignment of the function writes to the clone.
sanitizeComponent(component) ==
  LET mass == Number(component.massKg)
  IN  IF ~isFinite(mass) \/ Le(mass, Zero)
        THEN [thrown |-> TRUE,
              message |-> "Component must have a positive mass in kg.",
              id |-> component.id,
              value |-> Undefined,
              input |-> component]
        ELSE [thrown |-> FALSE, message |-> "", id |-> "",
              value |-> [key \in DOMAIN component |->
                           IF key = "massKg" THEN mass
                           ELSE IF key \in FactorKeys
                             THEN LET value == Number(component[key])
                                  IN  clamp01(IF isFinite(value) THEN value ELSE Zero)
                             ELSE component[key]],
              input |-> component]

\* computeUseFactorX without the check of the denominator Id * Ld.
computeUseFactorX_NoDenominatorCheck(params) ==
  IF \E key \in {"I", "L", "Id", "Ld"} : params[key].k = "undef"
    THEN Throw("Missing lifetime or intensity input needed for Eq. 8.", "")
    ELSE Return(Div(Mul(params.I, params.L), Mul(params.Id, params.Ld)))

computeUseFactorX(params) ==
  IF \E key \in {"I", "L", "Id", "Ld"} : params[key].k = "undef"
    THEN Throw("Missing lifetime or intensity input needed for Eq. 8.", "")
    ELSE LET denominator == Mul(params.Id, params.Ld)
         IN  IF Le(denominator, Zero)
               THEN Throw("Expected lifetime (Ld) and intensity (Id) must be positive numbers.", "")
               ELSE Return(Div(Mul(params.I, params.L), denominator))

\* computeVirginFeedstockMass taking Fu as it is given.
computeVirginFeedstockMass_RawFu(M, Fu, Ecp, Efp, Fr) ==
  LET denominator == Mul(Ecp, Efp)
      reusedShare == Sub(One, Fu)
      recycledShare == Sub(One, clamp01(Fr))
  IN  IF Le(denominator, Zero)
        THEN Throw("Ecp and Efp must be positive to compute Eq. 9.", "")
        ELSE Return(Mul(Div(Mul(reusedShare, M), denominator), recycledShare))

computeVirginFeedstockMass(M, Fu, Ecp, Efp, Fr) ==
  LET denominator == Mul(Ecp, Efp)
      reusedShare == Sub(One, clamp01(Fu))
      recycledShare == Sub(One, clamp01(Fr))
  IN  IF Le(denominator, Zero)
        THEN Throw("Ecp and Efp must be positive to compute Eq. 9.", "")
        ELSE Return(Mul(Div(Mul(reusedShare, M), denominator), recycledShare))

\* computeWasteMass with the unrecovered end-of-life mass Wu left out.
computeWasteMass_NoUnrecovered(M, params) ==
  LET reusedShare == Sub(One, clamp01(params.Fu))
      baseFeedstock == Mul(reusedShare, M)
      denomFeedstock == Mul(params.Efp, params.Ecp)
      recycleCr == clamp01(params.Cr)
      Wfp == Mul(Mul(Div(baseFeedstock, denomFeedstock), Sub(One, clamp01(params.Efp))),
                 Sub(One, clamp01(params.Cfp)))
      Wcp == Mul(Mul(Div(baseFeedstock, params.Ecp), Sub(One, clamp01(params.Ecp))),
                 Sub(One, clamp01(params.Ccp)))
      Wms == Mul(Mul(M, Sub(One, clamp01(params.Ems))), recycleCr)
      Wrfp == Mul(Mul(M, clamp01(params.Ems)), Sub(One, clamp01(params.Erfp)))
  IN  IF Le(denomFeedstock, Zero) \/ Le(params.Ecp, Zero)
        THEN Throw("Efficiencies must be positive to compute waste masses.", "")
        ELSE Return([total |-> Add(Add(Add(Wfp, Wcp), Wms), Wrfp),
                     breakdown |-> [Wfp |-> Wfp, Wcp |-> Wcp, Wu |-> Zero,
                                    Wms |-> Wms, Wrfp |-> Wrfp]])

\* computeWasteMass with Wrfp = M * Ems * Erfp.
computeWasteMass_WrfpInverted(M, params) ==
  LET reusedShare == Sub(One, clamp01(params.Fu))
      baseFeedstock == Mul(reusedShare, M)
      denomFeedstock == Mul(params.Efp, params.Ecp)
      recycleCu == clamp01(params.Cu)
      recycleCr == clamp01(params.Cr)
      Wfp == Mul(Mul(Div(baseFeedstock, denomFeedstock), Sub(One, clamp01(params.Efp))),
                 Sub(One, clamp01(params.Cfp)))
      Wcp == Mul(Mul(Div(baseFeedstock, params.Ecp), Sub(One, clamp01(params.Ecp))),
                 Sub(One, clamp01(params.Ccp)))
      Wu == Mul(M, MathMax(Zero, Sub(Sub(One, recycleCu), recycleCr)))
      Wms == Mul(Mul(M, Sub(One, clamp01(params.Ems))), recycleCr)
      Wrfp == Mul(Mul(M, clamp01(params.Ems)), clamp01(params.Erfp))
  IN  IF Le(denomFeedstock, Zero) \/ Le(params.Ecp, Zero)
        THEN Throw("Efficiencies must be positive to compute waste masses.", "")
        ELSE Return([total |-> Add(Add(Add(Add(Wfp, Wcp), Wu), Wms), Wrfp),
                     breakdown |-> [Wfp |-> Wfp, Wcp |-> Wcp, Wu |-> Wu,
                                    Wms |-> Wms, Wrfp |-> Wrfp]])

\* computeWasteMass with Wms = M * (1 - Ems) * Cu.
computeWasteMass_WmsByCu(M, params) ==
  LET reusedShare == Sub(One, clamp01(params.Fu))
      baseFeedstock == Mul(reusedShare, M)
      denomFeedstock == Mul(params.Efp, params.Ecp)
      recycleCu == clamp01(params.Cu)
      recycleCr == clamp01(params.Cr)
      Wfp == Mul(Mul(Div(baseFeedstock, denomFeedstock), Sub(One, clamp01(params.Efp))),
                 Sub(One, clamp01(params.Cfp)))
      Wcp == Mul(Mul(Div(baseFeedstock, params.Ecp), Sub(One, clamp01(params.Ecp))),
                 Sub(One, clamp01(params.Ccp)))
      Wu == Mul(M, MathMax(Zero, Sub(Sub(One, recycleCu), recycleCr)))
      Wms == Mul(Mul(M, Sub(One, clamp01(params.Ems))), recycleCu)
      Wrfp == Mul(Mul(M, clamp01(params.Ems)), Sub(One, clamp01(params.Erfp)))
  IN  IF Le(denomFeedstock, Zero) \/ Le(params.Ecp, Zero)
        THEN Throw("Efficiencies must be positive to compute waste masses.", "")
        ELSE Return([total |-> Add(Add(Add(Add(Wfp, Wcp), Wu), Wms), Wrfp),
                     breakdown |-> [Wfp |-> Wfp, Wcp |-> Wcp, Wu |-> Wu,
                                    Wms |-> Wms, Wrfp |-> Wrfp]])

computeWasteMass(M, params) ==
  LET reusedShare == Sub(One, clamp01(params.Fu))
      baseFeedstock == Mul(reusedShare, M)
      denomFeedstock == Mul(params.Efp, params.Ecp)
      effFp == clamp01(params.Efp)
      effCp == clamp01(params.Ecp)
      recycleCu == clamp01(params.Cu)
      recycleCr == clamp01(params.Cr)
      Wfp == Mul(Mul(Div(baseFeedstock, denomFeedstock), Sub(One, effFp)),
                 Sub(One, clamp01(params.Cfp)))
      Wcp == Mul(Mul(Div(baseFeedstock, params.Ecp), Sub(One, effCp)),
                 Sub(One, clamp01(params.Ccp)))
      Wu == Mul(M, MathMax(Zero, Sub(Sub(One, recycleCu), recycleCr)))
      Wms == Mul(Mul(M, Sub(One, clamp01(params.Ems))), recycleCr)
      Wrfp == Mul(Mul(M, clamp01(params.Ems)), Sub(One, clamp01(params.Erfp)))
  IN  IF Le(denomFeedstock, Zero) \/ Le(params.Ecp, Zero)
        THEN Throw("Efficiencies must be positive to compute waste masses.", "")
        ELSE Return([total |-> Add(Add(Add(Add(Wfp, Wcp), Wu), Wms), Wrfp),
                     breakdown |-> [Wfp |-> Wfp, Wcp |-> Wcp, Wu |-> Wu,
                                    Wms |-> Wms, Wrfp |-> Wrfp]])

\* computeRecyclingFlows leaving the conversion scrap Rcp out of Rout.
computeRecyclingFlows_NoConversionScrap(M, params) ==
  LET reusedShare == Sub(One, clamp01(params.Fu))
      denom == Mul(params.Efp, params.Ecp)
      Rin == Div(Mul(reusedShare, M), denom)
      scrapBase == Mul(Rin, Sub(One, clamp01(params.Efp)))
      Rfp == Mul(scrapBase, clamp01(params.Cfp))
      Rcp == Mul(Mul(Div(Mul(reusedShare, M), params.Ecp), Sub(One, clamp01(params.Ecp))),
                 clamp01(params.Ccp))
      REoL == Mul(Mul(Mul(clamp01(params.Erfp), clamp01(params.Ems)), clamp01(params.Cr)), M)
      Rout == Add(Rfp, REoL)
      absR == MathAbs(Sub(Rin, Rout))
  IN  IF Le(denom, Zero)
        THEN Throw("Efp and Ecp must be positive to compute recycling flows.", "")
        ELSE Return([Rin |-> Rin, Rout |-> Rout, absR |-> absR,
                     breakdown |-> [Rfp |-> Rfp, Rcp |-> Rcp, REoL |-> REoL]])

computeRecyclingFlows(M, params) ==
  LET reusedShare == Sub(One, clamp01(params.Fu))
      denom == Mul(params.Efp, params.Ecp)
      Rin == Div(Mul(reusedShare, M), denom)
      scrapBase == Mul(Rin, Sub(One, clamp01(params.Efp)))
      Rfp == Mul(scrapBase, clamp01(params.Cfp))
      Rcp == Mul(Mul(Div(Mul(reusedShare, M), params.Ecp), Sub(One, clamp01(params.Ecp))),
                 clamp01(params.Ccp))
      REoL == Mul(Mul(Mul(clamp01(params.Erfp), clamp01(params.Ems)), clamp01(params.Cr)), M)
      Rout == Add(Add(Rfp, Rcp), REoL)
      absR == MathAbs(Sub(Rin, Rout))
  IN  IF Le(denom, Zero)
        THEN Throw("Efp and Ecp must be positive to compute recycling flows.", "")
        ELSE Return([Rin |-> Rin, Rout |-> Rout, absR |-> absR,
                     breakdown |-> [Rfp |-> Rfp, Rcp |-> Rcp, REoL |-> REoL]])

\* computeReusedComponentMass without the reuse credit Cu.
computeReusedComponentMass_NoCredit(M, Fu, Cu) ==
  Mul(M, clamp01(Fu))

\* computeReusedComponentMass returning the reused share without the mass.
computeReusedComponentMass_PerUnit(M, Fu, Cu) ==
  Sub(clamp01(Fu), clamp01(Cu))

computeReusedComponentMass(M, Fu, Cu) ==
  Mul(M, Sub(clamp01(Fu), clamp01(Cu)))

\* computeLinearMassFlows dividing by Ecp alone.
computeLinearMassFlows_EcpOnly(M, Ecp, Efp) ==
  LET denominator == Mul(Ecp, Efp)
      linearValue == Div(M, Ecp)
  IN  IF Le(denominator, Zero)
        THEN Throw("Ecp and Efp must be positive to compute linear reference flows.", "")
        ELSE Return([V |-> linearValue, W |-> linearValue])

computeLinearMassFlows(M, Ecp, Efp) ==
  LET denominator == Mul(Ecp, Efp)
      linearValue == Div(M, denominator)
  IN  IF Le(denominator, Zero)
        THEN Throw("Ecp and Efp must be positive to compute linear reference flows.", "")
        ELSE Return([V |-> linearValue, W |-> linearValue])

\* deriveMassFlows checking Efp alone.
deriveMassFlows_EfpOnly(M, component, params) ==
  LET Fu == params.Fu
      Cu == params.Cu
      Cr == params.Cr
      \* the flows record, from the results of the four throwing helpers
      Flows(V, waste, recycling, linear) ==
        IF V.thrown THEN V
        ELSE IF waste.thrown THEN waste
        ELSE IF recycling.thrown THEN recycling
        ELSE IF linear.thrown THEN linear
        ELSE Return([V |-> V.value,
                     W |-> waste.value.total,
                     wasteBreakdown |-> waste.value.breakdown,
                     Rin |-> recycling.value.Rin,
                     Rout |-> recycling.value.Rout,
                     absR |-> recycling.value.absR,
                     recyclingBreakdown |-> recycling.value.breakdown,
                     C |-> computeReusedComponentMass(M, Fu, Cu),
                     linear |-> linear.value])
  IN  IF Le(component.Efp, Zero)
        THEN Throw("Component must have positive Efp and Ecp values.", component.id)
        ELSE Flows(
               computeVirginFeedstockMass(M, Fu, component.Ecp, component.Efp, component.Fr),
               computeWasteMass(M,
                 [Fu |-> Fu, Efp |-> component.Efp, Ecp |-> component.Ecp,
                  Cfp |-> component.Cfp, Ccp |-> component.Ccp, Cu |-> Cu, Cr |-> Cr,
                  Ems |-> component.Ems, Erfp |-> component.Erfp]),
               computeRecyclingFlows(M,
                 [Fu |-> Fu, Efp |-> component.Efp, Ecp |-> component.Ecp,
                  Cfp |-> component.Cfp, Ccp |-> component.Ccp, Cr |-> Cr,
                  Ems |-> component.Ems, Erfp |-> component.Erfp]),
               computeLinearMassFlows(M, component.Ecp, component.Efp))

deriveMassFlows(M, component, params) ==
  LET Fu == params.Fu
      Cu == params.Cu
      Cr == params.Cr
      \* the flows record, from the results of the four throwing helpers
      Flows(V, waste, recycling, linear) ==
        IF V.thrown THEN V
        ELSE IF waste.thrown THEN waste
        ELSE IF recycling.thrown THEN recycling
        ELSE IF linear.thrown THEN linear
        ELSE Return([V |-> V.value,
                     W |-> waste.value.total,
                     wasteBreakdown |-> waste.value.breakdown,
                     Rin |-> recycling.value.Rin,
                     Rout |-> recycling.value.Rout,
                     absR |-> recycling.value.absR,
                     recyclingBreakdown |-> recycling.value.breakdown,
                     C |-> computeReusedComponentMass(M, Fu, Cu),
                     linear |-> linear.value])
  IN  IF Le(component.Efp, Zero) \/ Le(component.Ecp, Zero)
        THEN Throw("Component must have positive Efp and Ecp values.", component.id)
        ELSE Flows(
               computeVirginFeedstockMass(M, Fu, component.Ecp, component.Efp, component.Fr),
               computeWasteMass(M,
                 [Fu |-> Fu, Efp |-> component.Efp, Ecp |-> component.Ecp,
                  Cfp |-> component.Cfp, Ccp |-> component.Ccp, Cu |-> Cu, Cr |-> Cr,
                  Ems |-> component.Ems, Erfp |-> component.Erfp]),
               computeRecyclingFlows(M,
                 [Fu |-> Fu, Efp |-> component.Efp, Ecp |-> component.Ecp,
                  Cfp |-> component.Cfp, Ccp |-> component.Ccp, Cr |-> Cr,
                  Ems |-> component.Ems, Erfp |-> component.Erfp]),
               computeLinearMassFlows(M, component.Ecp, component.Efp))

\* computeComponentIndicators with the signed C in place of |C|.
computeComponentIndicators_NoAbs(component, params, X) ==
  LET \* the indicators, from the result of deriveMassFlows
      Indicators(derived) ==
        LET flows == derived.value
            linearDenominator == Add(flows.linear.V, flows.linear.W)
            numerator == Add(Add(Add(flows.V, flows.W), Mul(Half, flows.absR)),
                             Mul(Half, flows.C))
            LFI == IF Gt(linearDenominator, Zero)
                     THEN Div(numerator, linearDenominator) ELSE Zero
            ratio == IF Gt(X, Zero) THEN Div(LFI, X) ELSE Infinity
            CCI == clamp01(Sub(One, ratio))
            warnings == (IF ~isFinite(ratio)
                           THEN <<"Use factor X caused a division by zero.">> ELSE <<>>)
                        \o (IF Le(CCI, Zero) THEN <<"CCI clipped to 0 per Eq. 6.">> ELSE <<>>)
        IN  IF derived.thrown THEN derived
            ELSE Return([LFI |-> LFI, CCI |-> CCI, flows |-> flows, warnings |-> warnings]
                        @@ component)
  IN  Indicators(deriveMassFlows(component.massKg, component, params))

\* computeComponentIndicators throwing where it should warn of a clipped CCI.
computeComponentIndicators_ThrowOnClip(component, params, X) ==
  LET \* the indicators, from the result of deriveMassFlows
      Indicators(derived) ==
        LET flows == derived.value
            linearDenominator == Add(flows.linear.V, flows.linear.W)
            numerator == Add(Add(Add(flows.V, flows.W), Mul(Half, flows.absR)),
                             Mul(Half, MathAbs(flows.C)))
            LFI == IF Gt(linearDenominator, Zero)
                     THEN Div(numerator, linearDenominator) ELSE Zero
            ratio == IF Gt(X, Zero) THEN Div(LFI, X) ELSE Infinity
            CCI == clamp01(Sub(One, ratio))
            warnings == (IF ~isFinite(ratio)
                           THEN <<"Use factor X caused a division by zero.">> ELSE <<>>)
                        \o (IF Le(CCI, Zero) THEN <<"CCI clipped to 0 per Eq. 6.">> ELSE <<>>)
        IN  IF derived.thrown THEN derived
            ELSE IF Le(CCI, Zero) THEN Throw("CCI clipped to 0 per Eq. 6.", component.id)
            ELSE Return([LFI |-> LFI, CCI |-> CCI, flows |-> flows, warnings |-> warnings]
                        @@ component)
  IN  Indicators(deriveMassFlows(component.massKg, component, params))

\* computeComponentIndicators warning of a clipped CCI up to EPSILON.
computeComponentIndicators_WarnBelowEpsilon(component, params, X) ==
  LET \* the indicators, from the result of deriveMassFlows
      Indicators(derived) ==
        LET flows == derived.value
            linearDenominator == Add(flows.linear.V, flows.linear.W)
            numerator == Add(Add(Add(flows.V, flows.W), Mul(Half, flows.absR)),
                             Mul(Half, MathAbs(flows.C)))
            LFI == IF Gt(linearDenominator, Zero)
                     THEN Div(numerator, linearDenominator) ELSE Zero
            ratio == IF Gt(X, Zero) THEN Div(LFI, X) ELSE Infinity
            CCI == clamp01(Sub(One, ratio))
            warnings == (IF ~isFinite(ratio)
                           THEN <<"Use factor X caused a division by zero.">> ELSE <<>>)
                        \o (IF Le(CCI, EPSILON) THEN <<"CCI clipped to 0 per Eq. 6.">> ELSE <<>>)
        IN  IF derived.thrown THEN derived
            ELSE Return([LFI |-> LFI, CCI |-> CCI, flows |-> flows, warnings |-> warnings]
                        @@ component)
  IN  Indicators(deriveMassFlows(component.massKg, component, params))

computeComponentIndicators(component, params, X) ==
  LET \* the indicators, from the result of deriveMassFlows
      Indicators(derived) ==
        LET flows == derived.value
            linearDenominator == Add(flows.linear.V, flows.linear.W)
            numerator == Add(Add(Add(flows.V, flows.W), Mul(Half, flows.absR)),
                             Mul(Half, MathAbs(flows.C)))
            LFI == IF Gt(linearDenominator, Zero)
                     THEN Div(numerator, linearDenominator) ELSE Zero
            ratio == IF Gt(X, Zero) THEN Div(LFI, X) ELSE Infinity
            CCI == clamp01(Sub(One, ratio))
            warnings == (IF ~isFinite(ratio)
                           THEN <<"Use factor X caused a division by zero.">> ELSE <<>>)
                        \o (IF Le(CCI, Zero) THEN <<"CCI clipped to 0 per Eq. 6.">> ELSE <<>>)
        IN  IF derived.thrown THEN derived
            ELSE Return([LFI |-> LFI, CCI |-> CCI, flows |-> flows, warnings |-> warnings]
                        @@ component)
  IN  Indicators(deriveMassFlows(component.massKg, component, params))

\* computePCI as the plain mean of the CCIs.
computePCI_Unweighted(list) ==
  LET count == R(Len(list), 1)
      total == Sum([i \in DOMAIN list |-> Coalesce(list[i].CCI, Zero)])
  IN  IF Le(count, Zero) THEN Zero
      ELSE clamp01(Div(total, count))

\* computePCI without the guard on the total mass.
computePCI_NoGuard(list) ==
  LET totalMass == Sum([i \in DOMAIN list |-> list[i].massKg])
      weighted == Sum([i \in DOMAIN list |->
                         Mul(list[i].massKg, Coalesce(list[i].CCI, Zero))])
  IN  clamp01(Div(weighted, totalMass))

computePCI(list) ==
  LET totalMass == Sum([i \in DOMAIN list |-> list[i].massKg])
      weighted == Sum([i \in DOMAIN list |->
                         Mul(list[i].massKg, Coalesce(list[i].CCI, Zero))])
  IN  IF Le(totalMass, Zero) THEN Zero
      ELSE clamp01(Div(weighted, totalMass))

\* computeCIIForComponents without the division by the denominator.
computeCIIForComponents_Unnormalised(list, PCI) ==
  LET safePCI == clamp01(PCI)
  IN  IF Le(safePCI, EPSILON)
        THEN [i \in DOMAIN list |->
                [CII |-> Zero,
                 warnings |-> Append(list[i].warnings,
                                     "PCI equals 0, so CII defaults to 0 (Eq. 4).")]
                @@ list[i]]
        ELSE [i \in DOMAIN list |->
                LET cci == list[i].CCI
                IN  [CII |-> IF Gt(cci, EPSILON)
                               THEN clampPercentage(Mul(Div(safePCI, cci), Hundred))
                               ELSE Zero,
                     warnings |-> IF Gt(cci, EPSILON) THEN list[i].warnings
                                  ELSE Append(list[i].warnings,
                                              "CCI too low to derive CII (Eq. 4).")]
                    @@ list[i]]

\* computeCIIForComponents without the branch for PCI <= EPSILON.
computeCIIForComponents_NoZeroBranch(list, PCI) ==
  LET safePCI == clamp01(PCI)
      denominator == Sum([i \in DOMAIN list |->
                            LET cci == Coalesce(list[i].CCI, Zero)
                            IN  IF Gt(cci, EPSILON) THEN Div(safePCI, cci) ELSE Zero])
  IN  IF FALSE
        THEN [i \in DOMAIN list |->
                [CII |-> Zero,
                 warnings |-> Append(list[i].warnings,
                                     "PCI equals 0, so CII defaults to 0 (Eq. 4).")]
                @@ list[i]]
        ELSE [i \in DOMAIN list |->
                LET cci == Coalesce(list[i].CCI, Zero)
                    derive == Gt(cci, EPSILON) /\ Gt(denominator, EPSILON)
                IN  [CII |-> IF derive
                               THEN clampPercentage(
                                      Mul(Div(Div(safePCI, cci), denominator), Hundred))
                               ELSE Zero,
                     warnings |-> IF derive THEN list[i].warnings
                                  ELSE Append(list[i].warnings,
                                              "CCI too low to derive CII (Eq. 4).")]
                    @@ list[i]]

\* computeCIIForComponents returning the share as a fraction, not a percentage.
computeCIIForComponents_Fraction(list, PCI) ==
  LET safePCI == clamp01(PCI)
      denominator == Sum([i \in DOMAIN list |->
                            LET cci == Coalesce(list[i].CCI, Zero)
                            IN  IF Gt(cci, EPSILON) THEN Div(safePCI, cci) ELSE Zero])
  IN  IF Le(safePCI, EPSILON)
        THEN [i \in DOMAIN list |->
                [CII |-> Zero,
                 warnings |-> Append(list[i].warnings,
                                     "PCI equals 0, so CII defaults to 0 (Eq. 4).")]
                @@ list[i]]
        ELSE [i \in DOMAIN list |->
                LET cci == Coalesce(list[i].CCI, Zero)
                    derive == Gt(cci, EPSILON) /\ Gt(denominator, EPSILON)
                IN  [CII |-> IF derive
                               THEN clampPercentage(Div(Div(safePCI, cci), denominator))
                               ELSE Zero,
                     warnings |-> IF derive THEN list[i].warnings
                                  ELSE Append(list[i].warnings,
                                              "CCI too low to derive CII (Eq. 4).")]
                    @@ list[i]]

\* computeCIIForComponents deriving a CII only for a CCI above the PCI.
computeCIIForComponents_AbovePciOnly(list, PCI) ==
  LET safePCI == clamp01(PCI)
      denominator == Sum([i \in DOMAIN list |->
                            LET cci == Coalesce(list[i].CCI, Zero)
                            IN  IF Gt(cci, EPSILON) THEN Div(safePCI, cci) ELSE Zero])
  IN  IF Le(safePCI, EPSILON)
        THEN [i \in DOMAIN list |->
                [CII |-> Zero,
                 warnings |-> Append(list[i].warnings,
                                     "PCI equals 0, so CII defaults to 0 (Eq. 4).")]
                @@ list[i]]
        ELSE [i \in DOMAIN list |->
                LET cci == Coalesce(list[i].CCI, Zero)
                    derive == Gt(cci, safePCI) /\ Gt(denominator, EPSILON)
                IN  [CII |-> IF derive
                               THEN clampPercentage(
                                      Mul(Div(Div(safePCI, cci), denominator), Hundred))
                               ELSE Zero,
                     warnings |-> IF derive THEN list[i].warnings
                                  ELSE Append(list[i].warnings,
                                              "CCI too low to derive CII (Eq. 4).")]
                    @@ list[i]]

\* computeCIIForComponents weighting each share by the component's mass.
computeCIIForComponents_MassWeighted(list, PCI) ==
  LET safePCI == clamp01(PCI)
      denominator == Sum([i \in DOMAIN list |->
                            LET cci == Coalesce(list[i].CCI, Zero)
                            IN  IF Gt(cci, EPSILON)
                                  THEN Mul(list[i].massKg, Div(safePCI, cci)) ELSE Zero])
  IN  IF Le(safePCI, EPSILON)
        THEN [i \in DOMAIN list |->
                [CII |-> Zero,
                 warnings |-> Append(list[i].warnings,
                                     "PCI equals 0, so CII defaults to 0 (Eq. 4).")]
                @@ list[i]]
        ELSE [i \in DOMAIN list |->
                LET cci == Coalesce(list[i].CCI, Zero)
                    derive == Gt(cci, EPSILON) /\ Gt(denominator, EPSILON)
                IN  [CII |-> IF derive
                               THEN clampPercentage(
                                      Mul(Div(Mul(list[i].massKg, Div(safePCI, cci)),
                                              denominator), Hundred))
                               ELSE Zero,
                     warnings |-> IF derive THEN list[i].warnings
                                  ELSE Append(list[i].warnings,
                                              "CCI too low to derive CII (Eq. 4).")]
                    @@ list[i]]

computeCIIForComponents(list, PCI) ==
  LET safePCI == clamp01(PCI)
      denominator == Sum([i \in DOMAIN list |->
                            LET cci == Coalesce(list[i].CCI, Zero)
                            IN  IF Gt(cci, EPSILON) THEN Div(safePCI, cci) ELSE Zero])
  IN  IF Le(safePCI, EPSILON)
        THEN [i \in DOMAIN list |->
                [CII |-> Zero,
                 warnings |-> Append(list[i].warnings,
                                     "PCI equals 0, so CII defaults to 0 (Eq. 4).")]
                @@ list[i]]
        ELSE [i \in DOMAIN list |->
                LET cci == Coalesce(list[i].CCI, Zero)
                    derive == Gt(cci, EPSILON) /\ Gt(denominator, EPSILON)
                IN  [CII |-> IF derive
                               THEN clampPercentage(
                                      Mul(Div(Div(safePCI, cci), denominator), Hundred))
                               ELSE Zero,
                     warnings |-> IF derive THEN list[i].warnings
                                  ELSE Append(list[i].warnings,
                                              "CCI too low to derive CII (Eq. 4).")]
                    @@ list[i]]

buildDebugSnapshot(list) ==
  [i \in DOMAIN list |->
     [id |-> list[i].id,
      V |-> list[i].flows.V, W |-> list[i].flows.W,
      Rin |-> list[i].flows.Rin, Rout |-> list[i].flows.Rout,
      absR |-> list[i].flows.absR, C |-> list[i].flows.C,
      LFI |-> list[i].LFI, CCI |-> list[i].CCI]]

\* computeCircularityIndicators deriving each component's flows from the
\* total product mass.
computeCircularityIndicators_TotalMassFlows(list, params) ==
  LET \* the part after the use-factor check, from the per-component results
      Aggregate(indicators, X, totalMass) ==
        LET perComponent == indicators.value
            PCI == computePCI(perComponent)
            withCii == computeCIIForComponents(perComponent, PCI)
        IN  IF indicators.thrown THEN indicators
            ELSE Return([components |-> withCii, PCI |-> PCI, X |-> X,
                         M_total |-> totalMass, debug |-> buildDebugSnapshot(withCii)])
      \* the part after the empty-list check, from the sanitized list and the
      \* result of computeUseFactorX
      Compute(sanitized, useFactor) ==
        LET sanitizedComponents == sanitized.value
            totalMass == Sum([i \in DOMAIN list |-> sanitizedComponents[i].massKg])
            X == useFactor.value
        IN  IF sanitized.thrown THEN Throw(sanitized.message, sanitized.id)
            ELSE IF Le(totalMass, Zero)
              THEN Throw("Total product mass must be greater than zero.", "")
            ELSE IF useFactor.thrown THEN useFactor
            ELSE IF ~isFinite(X) \/ Le(X, Zero)
              THEN Throw("Use factor X (Eq. 8) must be positive. Check L, Ld, I, and Id.", "")
            ELSE Aggregate(
                   MapOrThrow([i \in DOMAIN list |->
                      computeComponentIndicators(
                        [sanitizedComponents[i] EXCEPT !.massKg = totalMass], params, X)]),
                   X, totalMass)
  IN  IF Len(list) = 0
        THEN Throw("At least one component is required to compute circularity indicators.", "")
        ELSE Compute(MapOrThrow([i \in DOMAIN list |-> sanitizeComponent(list[i])]),
                     computeUseFactorX(params))

\* computeCircularityIndicators deriving every component's mass flows before
\* it computes the use factor.
computeCircularityIndicators_FlowsFirst(list, params) ==
  LET \* the part after the use-factor check, from the per-component results
      Aggregate(indicators, X, totalMass) ==
        LET perComponent == indicators.value
            PCI == computePCI(perComponent)
            withCii == computeCIIForComponents(perComponent, PCI)
        IN  IF indicators.thrown THEN indicators
            ELSE Return([components |-> withCii, PCI |-> PCI, X |-> X,
                         M_total |-> totalMass, debug |-> buildDebugSnapshot(withCii)])
      \* the part after the empty-list check, from the sanitized list and the
      \* result of computeUseFactorX
      Compute(sanitized, useFactor) ==
        LET sanitizedComponents == sanitized.value
            totalMass == Sum([i \in DOMAIN list |-> sanitizedComponents[i].massKg])
            X == useFactor.value
            Derived(flows) ==
              IF flows.thrown THEN flows
              ELSE IF useFactor.thrown THEN useFactor
              ELSE IF ~isFinite(X) \/ Le(X, Zero)
                THEN Throw("Use factor X (Eq. 8) must be positive. Check L, Ld, I, and Id.", "")
              ELSE Aggregate(
                     MapOrThrow([i \in DOMAIN list |->
                        computeComponentIndicators(sanitizedComponents[i], params, X)]),
                     X, totalMass)
        IN  IF sanitized.thrown THEN Throw(sanitized.message, sanitized.id)
            ELSE IF Le(totalMass, Zero)
              THEN Throw("Total product mass must be greater than zero.", "")
            ELSE Derived(MapOrThrow([i \in DOMAIN list |->
                   deriveMassFlows(sanitizedComponents[i].massKg,
                                   sanitizedComponents[i], params)]))
  IN  IF Len(list) = 0
        THEN Throw("At least one component is required to compute circularity indicators.", "")
        ELSE Compute(MapOrThrow([i \in DOMAIN list |-> sanitizeComponent(list[i])]),
                     computeUseFactorX(params))

computeCircularityIndicators(list, params) ==
  LET \* the part after the use-factor check, from the per-component results
      Aggregate(indicators, X, totalMass) ==
        LET perComponent == indicators.value
            PCI == computePCI(perComponent)
            withCii == computeCIIForComponents(perComponent, PCI)
        IN  IF indicators.thrown THEN indicators
            ELSE Return([components |-> withCii, PCI |-> PCI, X |-> X,
                         M_total |-> totalMass, debug |-> buildDebugSnapshot(withCii)])
      \* the part after the empty-list check, from the sanitized list and the
      \* result of computeUseFactorX
      Compute(sanitized, useFactor) ==
        LET sanitizedComponents == sanitized.value
            totalMass == Sum([i \in DOMAIN list |-> sanitizedComponents[i].massKg])
            X == useFactor.value
        IN  IF sanitized.thrown THEN Throw(sanitized.message, sanitized.id)
            ELSE IF Le(totalMass, Zero)
              THEN Throw("Total product mass must be greater than zero.", "")
            ELSE IF useFactor.thrown THEN useFactor
            ELSE IF ~isFinite(X) \/ Le(X, Zero)
              THEN Throw("Use factor X (Eq. 8) must be positive. Check L, Ld, I, and Id.", "")
            ELSE Aggregate(
                   MapOrThrow([i \in DOMAIN list |->
                      computeComponentIndicators(sanitizedComponents[i], params, X)]),
                   X, totalMass)
  IN  IF Len(list) = 0
        THEN Throw("At least one component is required to compute circularity indicators.", "")
        ELSE Compute(MapOrThrow([i \in DOMAIN list |-> sanitizeComponent(list[i])]),
                     computeUseFactorX(params))

---------------------------------------------------------------------------
(* The caller and the invocation *)

NoOutcome == [status |-> "none", message |-> "", id |-> "", value |-> Undefined]

\* No file has been chosen.
NoUpload == <<>>

\* The page's part of the state object as the script creates it, with an
\* empty status line and nothing offered for download.
NoUi ==
  [lastComputation |-> Null,
   sortDescending |-> [cci |-> FALSE, cii |-> FALSE],
   charts |-> [cci |-> Null, cii |-> Null],
   status |-> [message |-> "", type |-> "", detail |-> <<>>],
   download |-> Null]

\* The caller's component records after a call: the sanitizer has run, in
\* list order, on every record up to and including the first one it rejects.
InputsAfter(list) ==
  [i \in DOMAIN list |->
     IF \A j \in 1..(i - 1) : ~sanitizeComponent(list[j]).thrown
       THEN sanitizeComponent(list[i]).input
       ELSE list[i]]

\* One synchronous call computeCircularityIndicators(components, productParams).
Invoke ==
  LET OutcomeOf(call) ==
        [status |-> IF call.thrown THEN "thrown" ELSE "returned",
         message |-> call.message, id |-> call.id, value |-> call.value]
  IN  /\ outcome' = OutcomeOf(computeCircularityIndicators(components, productParams))
      /\ components' = InputsAfter(components)
      /\ UNCHANGED <<productParams, upload, ui>>

Next == Invoke

---------------------------------------------------------------------------
(* Inputs *)

\* Factor values are the multiples of 1/GridDen in [0,1].
GridDen == 2

\* The longest component list.
MaxComponents == 2

Grid == {R(i, GridDen) : i \in 0..GridDen}

Two == [k |-> "num", n |-> 2, d |-> 1]
Three == [k |-> "num", n |-> 3, d |-> 1]

IdOf(i) == <<"c1", "c2", "c3", "c4">>[i]

ComponentRecord(id, massKg, Fr, Efp, Ecp, Cfp, Ccp, Ems, Erfp) ==
  [id |-> id, massKg |-> massKg, Fr |-> Fr, Efp |-> Efp, Ecp |-> Ecp,
   Cfp |-> Cfp, Ccp |-> Ccp, Ems |-> Ems, Erfp |-> Erfp]

ParamsRecord(Fu, Cu, Cr, Ld, L, Id, I) ==
  [Fu |-> Fu, Cu |-> Cu, Cr |-> Cr, Ld |-> Ld, L |-> L, Id |-> Id, I |-> I]

\* Lists of 1..MaxComponents records drawn from `choices` (records without
\* an id), the i-th one given the id IdOf(i).
ListsOf(choices) ==
  UNION {{[i \in 1..len |-> [id |-> IdOf(i)] @@ f[i]] : f \in [1..len -> choices]} :
           len \in 1..MaxComponents}

\* A component whose recycled content and end-of-life efficiencies are all g,
\* with loss-free production.
Profile(massKg, g) == ComponentRecord("", massKg, g, One, One, Zero, Zero, g, g)

\* A component with lossy production stages.
Lossy(massKg) == ComponentRecord("", massKg, Zero, Half, Half, One, Zero, Zero, Zero)

\* Unit-mass components of every profile, and three heavier ones.
ListComponents ==
  {Profile(One, g) : g \in Grid}
    \cup {Profile(Three, Zero), Profile(Three, One), Lossy(Three)}

ListParams ==
  {ParamsRecord(Fu, C, C, One, L, One, One) : Fu \in Grid, C \in Grid, L \in {One, Two}}

\* A product whose use factor X = 2^30/(2^30 - 1) lies just above the LFI = 1
\* of its first component, which leaves that component a CCI of 2^-30: above
\* 0 and below EPSILON.
NearEpsilonComponents ==
  <<[id |-> IdOf(1)] @@ Profile(One, Zero), [id |-> IdOf(2)] @@ Profile(One, R(2, 3))>>

NearEpsilonParams ==
  ParamsRecord(Zero, One, Zero, One, One, R(1073741823, 1), R(1073741824, 1))

Init ==
  /\ \/ /\ components \in ListsOf(ListComponents)
        /\ productParams \in ListParams
     \/ /\ components = NearEpsilonComponents
        /\ productParams = NearEpsilonParams
  /\ outcome = NoOutcome
  /\ upload = NoUpload
  /\ ui = NoUi

Spec == Init /\ [][Next]_vars

\* The largest lifetime or intensity input of the fully linear products.
MaxScalar == 2

Scalars == {R(i, 1) : i \in 1..MaxScalar}

\* Fully linear products: every component has Fr = Cfp = Ccp = Ems = Erfp = 0
\* and Efp = Ecp = 1, nothing is reused (Fu = 0), and the use factor and the
\* end-of-life fractions Cu, Cr vary.
InitLinear ==
  /\ components \in ListsOf({Profile(m, Zero) : m \in {One, Three}})
  /\ productParams \in {ParamsRecord(Zero, Cu, Cr, Ld, L, Id, I) :
        Cu \in Grid, Cr \in Grid, Ld \in Scalars, L \in Scalars,
        Id \in Scalars, I \in Scalars}
  /\ outcome = NoOutcome
  /\ upload = NoUpload
  /\ ui = NoUi

SpecLinear == InitLinear /\ [][Next]_vars

\* Single components whose end-of-life factors Ems, Erfp and the product's
\* Fu, Cr run over the grid, with lossy or loss-free production, scrap
\* credited or not, and the reuse credit Cu absent or full.
InitErfp ==
  /\ components \in {<<ComponentRecord(IdOf(1), One, Zero, E, E, Cp, Cp, Ems, Erfp)>> :
        E \in {Half, One}, Cp \in {Zero, One}, Ems \in Grid, Erfp \in Grid}
  /\ productParams \in {ParamsRecord(Fu, Cu, Cr, One, L, One, One) :
        Fu \in Grid, Cu \in {Zero, One}, Cr \in Grid, L \in {One, Two}}
  /\ outcome = NoOutcome
  /\ upload = NoUpload
  /\ ui = NoUi

SpecErfp == InitErfp /\ [][Next]_vars

\* Raw field values as a form or a CSV import may leave them: missing,
\* null, text, non-finite, out of range, or numbers still held as strings.
RawValues ==
  {Undefined, Null, NonNumericString, NaN, Infinity, NegInfinity,
   Zero, R(-1, 2), R(3, 2), NumericString(1, 2), NumericString(3, 1)}

WellFormed == Profile(One, Half)

\* A well-formed record with one field replaced by a raw value.
RawVariants ==
  {WellFormed} \cup
  {[WellFormed EXCEPT ![key] = v] : key \in {"massKg"} \cup FactorKeys, v \in RawValues}

\* Lists in which one position holds a raw variant and every other position
\* a well-formed record or one without mass.
RawLists ==
  UNION {{[i \in 1..len |-> [id |-> IdOf(i)] @@ (IF i = at THEN v ELSE rest[i])] :
            at \in 1..len, v \in RawVariants,
            rest \in [1..len -> {WellFormed, [WellFormed EXCEPT !.massKg = Zero]}]} :
           len \in 1..MaxComponents}

InitRaw ==
  /\ components \in RawLists
  /\ productParams \in {ParamsRecord(Zero, Half, Half, One, One, One, One),
                         ParamsRecord(Zero, Half, Half, Undefined, One, One, One)}
  /\ outcome = NoOutcome
  /\ upload = NoUpload
  /\ ui = NoUi

SpecRaw == InitRaw /\ [][Next]_vars

---------------------------------------------------------------------------
(* Properties *)

Returned == outcome.status = "returned"
Thrown == outcome.status = "thrown"
Result == outcome.value

InRange(x, lo, hi) == x.k = "num" /\ Le(lo, x) /\ Le(x, hi)

\* C1: every returned result has 0 <= CCI <= 1 and 0 <= CII <= 100 for each
\* component, and 0 <= PCI <= 1.
C1_IndicatorRanges ==
  Returned =>
    /\ InRange(Result.PCI, Zero, One)
    /\ \A i \in DOMAIN Result.components :
         /\ InRange(Result.components[i].CCI, Zero, One)
         /\ InRange(Result.components[i].CII, Zero, Hundred)

\* A returned result in which two components have a CCI strictly inside
\* (0,1) and a CII strictly inside (0,100).
C1_Witness ==
  /\ Returned
  /\ Lt(Zero, Result.PCI) /\ Lt(Result.PCI, One)
  /\ \E i, j \in DOMAIN Result.components :
       /\ i # j
       /\ \A c \in {i, j} :
            /\ Lt(Zero, Result.components[c].CCI) /\ Lt(Result.components[c].CCI, One)
            /\ Lt(Zero, Result.components[c].CII) /\ Lt(Result.components[c].CII, Hundred)
       /\ Result.components[i].CCI # Result.components[j].CCI

CIIs == [i \in DOMAIN Result.components |-> Result.components[i].CII]
CCIs == [i \in DOMAIN Result.components |-> Result.components[i].CCI]

\* C2: in a returned result with PCI > EPSILON and some CCI > EPSILON the CII
\* values sum to exactly 100, and a component with CCI <= EPSILON has CII 0.
C2_CiiSumsToHundred ==
  (/\ Returned
   /\ Gt(Result.PCI, EPSILON)
   /\ \E i \in DOMAIN CCIs : Gt(CCIs[i], EPSILON))
  => /\ Sum(CIIs) = Hundred
     /\ \A i \in DOMAIN CCIs : Le(CCIs[i], EPSILON) => CIIs[i] = Zero

\* A returned result with PCI > EPSILON in which one component has a CCI
\* above 0 but not above EPSILON and another a CCI above EPSILON.
C2_Witness ==
  /\ Returned
  /\ Gt(Result.PCI, EPSILON)
  /\ \E i, j \in DOMAIN CCIs :
       /\ Gt(CCIs[i], Zero) /\ Le(CCIs[i], EPSILON) /\ CIIs[i] = Zero
       /\ Gt(CCIs[j], EPSILON) /\ CIIs[j] = Hundred

\* A returned result in which the 100 points are split unevenly over
\* components that all have CCI > EPSILON.
C2_WitnessSplit ==
  /\ Returned
  /\ \E i, j \in DOMAIN CCIs :
       /\ Gt(CCIs[i], EPSILON) /\ Gt(CCIs[j], EPSILON)
       /\ Lt(CIIs[i], CIIs[j])

---------------------------------------------------------------------------
(* Fully linear products *)

\* min(hi, max(lo, x)) of a finite x, written out with comparisons.
Clamped(x, lo, hi) == IF Lt(x, lo) THEN lo ELSE IF Lt(hi, x) THEN hi ELSE x

FullyLinear ==
  /\ \A i \in DOMAIN components :
       /\ \A key \in {"Fr", "Cfp", "Ccp", "Ems", "Erfp"} : components[i][key] = Zero
       /\ components[i].Efp = One /\ components[i].Ecp = One
  /\ productParams.Fu = Zero

Scenario1 ==
  /\ components = <<ComponentRecord("c1", One, Zero, One, One, Zero, Zero, Zero, Zero)>>
  /\ productParams = ParamsRecord(Zero, Zero, Zero, One, One, One, One)

\* C3 as stated: scenario 1 returns W = 0, LFI = 0.75, CCI = PCI = 0.25 and
\* CII = 100.
C3_Scenario1AsStated ==
  (Scenario1 /\ Returned) =>
    LET c == Result.components[1]
    IN  /\ Result.X = One
        /\ c.flows.V = One /\ c.flows.W = Zero
        /\ c.flows.Rin = One /\ c.flows.Rout = Zero /\ c.flows.absR = One
        /\ c.flows.C = Zero
        /\ c.flows.linear.V = One /\ c.flows.linear.W = One
        /\ c.LFI = R(3, 4) /\ c.CCI = R(1, 4)
        /\ Result.PCI = R(1, 4) /\ c.CII = Hundred

\* C3 amended: scenario 1 returns X = 1, V = 1, W = 1 (the whole mass is
\* unrecovered waste Wu, as Cu = Cr = 0), Rin = 1, Rout = 0, absR = 1, C = 0,
\* V_linear = W_linear = 1, LFI = 1.25, CCI = 0, PCI = 0 and CII = 0.
C3_Scenario1 ==
  (Scenario1 /\ outcome.status # "none") =>
    /\ Returned
    /\ LET c == Result.components[1]
       IN  /\ Result.X = One
           /\ c.flows.V = One /\ c.flows.W = One
           /\ c.flows.wasteBreakdown.Wu = One
           /\ c.flows.Rin = One /\ c.flows.Rout = Zero /\ c.flows.absR = One
           /\ c.flows.C = Zero
           /\ c.flows.linear.V = One /\ c.flows.linear.W = One
           /\ c.LFI = R(5, 4) /\ c.CCI = Zero
           /\ Result.PCI = Zero /\ c.CII = Zero

\* Scenario 1 has been computed.
C3_Witness == Scenario1 /\ Returned /\ Len(Result.components) = 1

\* C4 as stated: for a fully linear product every CCI is clamp01(1 - 1/X).
C4_LinearCciAsStated ==
  (FullyLinear /\ Returned) =>
    \A i \in DOMAIN CCIs :
      CCIs[i] = Clamped(Sub(One, Div(One, Result.X)), Zero, One)

\* The LFI of a fully linear component:
\* (3/2 + max(0, 1 - Cu - Cr) + Cr + Cu/2) / 2.
LinearLFI ==
  LET Cu == productParams.Cu
      Cr == productParams.Cr
      Wu == Clamped(Sub(Sub(One, Cu), Cr), Zero, One)
  IN  Div(Add(Add(Add(R(3, 2), Wu), Cr), Mul(Half, Cu)), Two)

\* C4 amended: for a fully linear product with Cu, Cr in [0,1] every CCI is
\* clamp01(1 - LFI/X) with LFI = (3/2 + max(0, 1-Cu-Cr) + Cr + Cu/2)/2 >= 1;
\* it never exceeds clamp01(1 - 1/X) and equals it when Cu = 1 and Cr = 0.
C4_LinearCci ==
  (FullyLinear /\ Returned) =>
    /\ Le(One, LinearLFI)
    /\ (productParams.Cu = One /\ productParams.Cr = Zero) => LinearLFI = One
    /\ \A i \in DOMAIN CCIs :
         /\ Result.components[i].LFI = LinearLFI
         /\ CCIs[i] = Clamped(Sub(One, Div(LinearLFI, Result.X)), Zero, One)
         /\ Le(CCIs[i], Clamped(Sub(One, Div(One, Result.X)), Zero, One))

\* A fully linear product with a reuse credit whose CCI is positive and
\* strictly below clamp01(1 - 1/X).
C4_Witness ==
  /\ FullyLinear /\ Returned
  /\ Gt(productParams.Cu, Zero)
  /\ \E i \in DOMAIN CCIs :
       /\ Gt(CCIs[i], Zero)
       /\ Lt(CCIs[i], Clamped(Sub(One, Div(One, Result.X)), Zero, One))

\* C5: for a fully linear product with X = 1 every CCI is 0 and PCI is 0,
\* whatever Cu, Cr and the masses are.
C5_LinearAtUnitUse ==
  (FullyLinear /\ Returned /\ Result.X = One) =>
    /\ Result.PCI = Zero
    /\ \A i \in DOMAIN CCIs : CCIs[i] = Zero

\* A fully linear product of two components of different mass, computed with
\* X = 1 at Cu = 1, Cr = 0, where LFI is exactly 1.
C5_Witness ==
  /\ FullyLinear /\ Returned /\ Result.X = One
  /\ productParams.Cu = One /\ productParams.Cr = Zero
  /\ Len(components) >= 2
  /\ components[1].massKg # components[2].massKg
  /\ Result.components[1].LFI = One

---------------------------------------------------------------------------
(* Monotonicity in Erfp *)

\* The outcome of the call on the same inputs with component i's Erfp set
\* to e.
WithErfp(i, e) ==
  computeCircularityIndicators([components EXCEPT ![i].Erfp = e], productParams)

\* C6: raising one component's Erfp inside [0,1], all else equal, never
\* lowers that component's CCI.
C6_ErfpMonotone ==
  Returned =>
    \A i \in DOMAIN components : \A e \in Grid :
      Le(components[i].Erfp, e) =>
        /\ ~WithErfp(i, e).thrown
        /\ Le(CCIs[i], WithErfp(i, e).value.components[i].CCI)

\* A returned result whose component recycles more than it takes in
\* (Rout > Rin) and whose CCI strictly rises with a larger Erfp.
C6_Witness ==
  /\ Returned
  /\ \E i \in DOMAIN components : \E e \in Grid :
       /\ Lt(components[i].Erfp, e)
       /\ Gt(Result.components[i].flows.Rout, Result.components[i].flows.Rin)
       /\ Lt(CCIs[i], WithErfp(i, e).value.components[i].CCI)

---------------------------------------------------------------------------
(* Sanitization *)

\* The raw mass does not coerce to a finite number above 0.
BadMass(v) ==
  \/ v.k \in {"undef", "str", "nan", "inf", "ninf", "null"}
  \/ v.k \in {"num", "numstr"} /\ v.n <= 0

\* min(1, max(0, v)) of the numeric coercion of a raw factor, 0 when it is
\* missing or not finite.
ExpectedFactor(v) ==
  IF v.k \in {"num", "numstr"}
    THEN Clamped([k |-> "num", n |-> v.n, d |-> v.d], Zero, One)
    ELSE Zero

\* C8: an invocation, returning or throwing, leaves every caller-owned
\* component record and the product-parameter record as they were.
C8_InputsNotMutated ==
  [][components' = components /\ productParams' = productParams]_vars

\* A returned result whose sanitized copy differs from the caller's record,
\* which still holds the raw value.
C8_Witness ==
  /\ Returned
  /\ \E i \in DOMAIN components : \E key \in {"massKg"} \cup FactorKeys :
       /\ components[i][key] \in RawValues \ {Zero}
       /\ Result.components[i][key] # components[i][key]
       /\ Result.components[i][key] = IF key = "massKg"
                                        THEN Number(components[i][key])
                                        ELSE ExpectedFactor(components[i][key])

\* C9: when some component's mass does not coerce to a finite number above
\* 0, the call throws the mass Error naming the id of the first such
\* component, and returns nothing.
C9_BadMassRejected ==
  (outcome.status # "none" /\ \E i \in DOMAIN components : BadMass(components[i].massKg))
  => /\ Thrown
     /\ outcome.message = "Component must have a positive mass in kg."
     /\ \E i \in DOMAIN components :
          /\ BadMass(components[i].massKg)
          /\ \A j \in 1..(i - 1) : ~BadMass(components[j].massKg)
          /\ outcome.id = components[i].id

\* A call rejected for the mass of its second component although a later
\* check (the use factor) would fail too.
C9_Witness ==
  /\ Thrown
  /\ Len(components) >= 2
  /\ ~BadMass(components[1].massKg)
  /\ BadMass(components[2].massKg)
  /\ outcome.id = components[2].id
  /\ productParams.Ld = Undefined

\* C10: sanitizing a record with an acceptable mass never fails, and each of
\* its seven factors becomes min(1, max(0, v)) of the coerced raw value, or 0
\* when that is missing or not finite: every sanitized factor is in [0,1].
C10_FactorsClamped ==
  /\ \A i \in DOMAIN components :
       LET clone == sanitizeComponent(components[i])
       IN  /\ clone.thrown <=> BadMass(components[i].massKg)
           /\ ~clone.thrown =>
                \A key \in FactorKeys :
                  /\ clone.value[key] = ExpectedFactor(components[i][key])
                  /\ InRange(clone.value[key], Zero, One)
  /\ Returned =>
       \A i \in DOMAIN components : \A key \in FactorKeys :
         Result.components[i][key] = ExpectedFactor(components[i][key])

\* A returned result computed from a factor above 1 (clamped to 1) or
\* below 0, missing or not finite (all 0 after sanitization).
C10_Witness ==
  /\ Returned
  /\ \E i \in DOMAIN components : \E key \in FactorKeys :
       /\ components[i][key] = R(3, 2)
       /\ Result.components[i][key] = One

---------------------------------------------------------------------------
(* The use factor *)

\* Values of a lifetime or intensity input: missing, null, text, infinite,
\* zero, negative, and the positive scalars.
UseValues ==
  {Undefined, Null, NonNumericString, Infinity, Zero, R(-1, 1)} \cup Scalars

\* A valid component, a valid one followed by one without feedstock
\* efficiency, and one without mass.
UseLists ==
  {<<[id |-> IdOf(1)] @@ WellFormed>>,
   <<[id |-> IdOf(1)] @@ WellFormed, [id |-> IdOf(2)] @@ [WellFormed EXCEPT !.Efp = Zero]>>,
   <<[id |-> IdOf(1)] @@ [WellFormed EXCEPT !.massKg = Zero]>>}

InitUse ==
  /\ components \in UseLists
  /\ productParams \in {ParamsRecord(Zero, Half, Half, Ld, L, Id, I) :
        Ld \in UseValues, L \in UseValues, Id \in UseValues, I \in UseValues}
  /\ outcome = NoOutcome
  /\ upload = NoUpload
  /\ ui = NoUi

SpecUse == InitUse /\ [][Next]_vars

UseKeys == {"I", "L", "Id", "Ld"}

MissingUseInput == \E key \in UseKeys : productParams[key] = Undefined

\* Id * Ld and (I * L) / (Id * Ld) of the caller's parameters.
UseDenominator == Mul(productParams.Id, productParams.Ld)
UseQuotient == Div(Mul(productParams.I, productParams.L), UseDenominator)

\* The list is not empty and every mass is acceptable: the checks that run
\* before the use factor is computed pass.
MassesValid ==
  /\ Len(components) > 0
  /\ \A i \in DOMAIN components : ~BadMass(components[i].massKg)

C11_WitnessX ==
  /\ Thrown
  /\ MassesValid
  /\ productParams.I = Zero /\ productParams.Id = One /\ productParams.Ld = One
  /\ outcome.message = "Use factor X (Eq. 8) must be positive. Check L, Ld, I, and Id."

\* A use-factor input that is missing or does not coerce to a number above 0.
NotPositive(v) == v = Undefined \/ ~Gt(v, Zero)

\* C12 as stated: a call fails whenever one of L, Ld, I, Id is missing or not
\* strictly positive, and returns only when all four are positive.
C12_AllFourPositive ==
  (\E key \in UseKeys : NotPositive(productParams[key])) => ~Returned

\* What the checks of Id * Ld and of X leave: a returned call has a positive
\* Id * Ld and a positive I * L, with an even number of negative inputs in
\* each pair.
C12_ProductsPositive ==
  Returned =>
    /\ Gt(UseDenominator, Zero)
    /\ Gt(Mul(productParams.I, productParams.L), Zero)

\* A returned result computed from Id = -1 and Ld = -1.
C12_NegativePairReturned ==
  /\ Returned
  /\ productParams.Id = R(-1, 1) /\ productParams.Ld = R(-1, 1)
  /\ productParams.I = One /\ productParams.L = One
  /\ Result.X = One

---------------------------------------------------------------------------
(* Production efficiencies *)

\* Raw values of Efp and of Ecp: acceptable, zero, negative, missing,
\* infinite, text.
EfpValues == {One, Zero, R(-1, 2), Undefined, Infinity}
EcpValues == {One, Zero, NonNumericString}

InitEff ==
  /\ components \in ListsOf({[WellFormed EXCEPT !.Efp = fp, !.Ecp = cp] :
                               fp \in EfpValues, cp \in EcpValues})
  /\ productParams \in {ParamsRecord(Zero, Half, Half, One, L, One, One) : L \in {One, Two}}
  /\ outcome = NoOutcome
  /\ upload = NoUpload
  /\ ui = NoUi

SpecEff == InitEff /\ [][Next]_vars

\* The record's sanitized Efp or Ecp is not above 0.
BadEfficiency(c) ==
  Le(ExpectedFactor(c.Efp), Zero) \/ Le(ExpectedFactor(c.Ecp), Zero)

\* C13: with valid masses and a valid use factor, a call on a list in which
\* some component's sanitized Efp or Ecp is not above 0 returns nothing and
\* throws the Error naming the id of the first such component.
C13_BadEfficiencyRejected ==
  (/\ outcome.status # "none"
   /\ MassesValid
   /\ ~MissingUseInput /\ Gt(UseDenominator, Zero)
   /\ isFinite(UseQuotient) /\ Gt(UseQuotient, Zero)
   /\ \E i \in DOMAIN components : BadEfficiency(components[i]))
  => /\ Thrown
     /\ outcome.message = "Component must have positive Efp and Ecp values."
     /\ \E i \in DOMAIN components :
          /\ BadEfficiency(components[i])
          /\ \A j \in 1..(i - 1) : ~BadEfficiency(components[j])
          /\ outcome.id = components[i].id

\* A call rejected for its second component, whose Efp is fine and whose Ecp
\* is text, after a first component with acceptable efficiencies.
C13_Witness ==
  /\ Thrown
  /\ Len(components) >= 2
  /\ ~BadEfficiency(components[1])
  /\ components[2].Efp = One /\ components[2].Ecp = NonNumericString
  /\ outcome.id = components[2].id
  /\ outcome.message = "Component must have positive Efp and Ecp values."

\* A call on two components without usable efficiencies, rejected for the
\* first.
C13_WitnessFirst ==
  /\ Thrown
  /\ Len(components) >= 2
  /\ components[1].Efp = Undefined /\ components[2].Ecp = Zero
  /\ components[1].id # components[2].id
  /\ outcome.id = components[1].id

---------------------------------------------------------------------------
(* Aggregation: PCI and CII *)

\* Components of different circularity and mass; with NearEpsilonParams the
\* fully linear ones get a CCI of 2^-30, above 0 and below EPSILON.
CiiComponents ==
  {Profile(One, Zero), Profile(Three, Zero), Profile(One, R(2, 3)),
   Profile(One, One), Lossy(Three)}

\* Fully linear components of different mass: at the use factor of
\* NearEpsilonParams each has a CCI of 2^-30.
NearEpsilonChoices == {Profile(One, Zero), Profile(Three, Zero)}

InitCii ==
  /\ \/ /\ components \in ListsOf(CiiComponents)
        /\ productParams \in ListParams
     \/ /\ components \in ListsOf(NearEpsilonChoices) \cup {NearEpsilonComponents}
        /\ productParams = NearEpsilonParams
  /\ outcome = NoOutcome
  /\ upload = NoUpload
  /\ ui = NoUi

SpecCii == InitCii /\ [][Next]_vars

PciZeroWarning == "PCI equals 0, so CII defaults to 0 (Eq. 4)."
CciLowWarning == "CCI too low to derive CII (Eq. 4)."
CciClippedWarning == "CCI clipped to 0 per Eq. 6."
DivisionWarning == "Use factor X caused a division by zero."

\* Component i of the result carries the warning w.
Warned(i, w) ==
  \E n \in DOMAIN Result.components[i].warnings : Result.components[i].warnings[n] = w

\* 1 - LFI/X of component i of the result, before clamping.
Unclamped(i) == Sub(One, Div(Result.components[i].LFI, Result.X))

\* C14: in a returned result with PCI <= EPSILON every component has CII 0
\* and the 'PCI equals 0' warning and none has the 'CCI too low' warning;
\* when every component's 1 - LFI/X is <= 0 the PCI is 0.
C14_PciZero ==
  Returned =>
    /\ Le(Result.PCI, EPSILON) =>
         \A i \in DOMAIN Result.components :
           /\ Result.components[i].CII = Zero
           /\ Warned(i, PciZeroWarning)
           /\ ~Warned(i, CciLowWarning)
    /\ (\A i \in DOMAIN Result.components : Le(Unclamped(i), Zero)) =>
         Result.PCI = Zero

\* A returned result of two components whose PCI is above 0 and not above
\* EPSILON, each with CII 0 and the 'PCI equals 0' warning.
C14_Witness ==
  /\ Returned
  /\ Gt(Result.PCI, Zero) /\ Le(Result.PCI, EPSILON)
  /\ Len(Result.components) >= 2
  /\ \A i \in DOMAIN Result.components :
       /\ Gt(CCIs[i], Zero)
       /\ CIIs[i] = Zero
       /\ Warned(i, PciZeroWarning)

\* A returned result with PCI = 0 in which every CCI was clipped.
C14_WitnessClipped ==
  /\ Returned
  /\ Result.PCI = Zero
  /\ \A i \in DOMAIN Result.components :
       Lt(Unclamped(i), Zero) /\ Warned(i, CciClippedWarning) /\ Warned(i, PciZeroWarning)

\* The CII denominator: the sum of PCI/CCI_j over the components with
\* CCI_j > EPSILON.
CiiDenominator ==
  Sum([j \in DOMAIN CCIs |->
         IF Gt(CCIs[j], EPSILON) THEN Div(Result.PCI, CCIs[j]) ELSE Zero])

\* C15: in a returned result with PCI > EPSILON a component with
\* CCI > EPSILON (the denominator being > EPSILON) has
\* CII = clamp(100 * (PCI/CCI) / denominator, 0, 100) and no 'CCI too low'
\* warning, and a component with CCI <= EPSILON has CII 0 and that warning.
C15_CiiFormula ==
  (Returned /\ Gt(Result.PCI, EPSILON)) =>
    \A i \in DOMAIN CCIs :
      /\ (Gt(CCIs[i], EPSILON) /\ Gt(CiiDenominator, EPSILON)) =>
           /\ CIIs[i] = Clamped(Mul(Hundred, Div(Div(Result.PCI, CCIs[i]), CiiDenominator)),
                                Zero, Hundred)
           /\ ~Warned(i, CciLowWarning)
      /\ Le(CCIs[i], EPSILON) =>
           /\ CIIs[i] = Zero
           /\ Warned(i, CciLowWarning)

\* A returned result with PCI > EPSILON holding a component with a CCI above
\* 0 and not above EPSILON, warned and given CII 0, beside a component with
\* CCI > EPSILON that is not warned.
C15_Witness ==
  /\ Returned
  /\ Gt(Result.PCI, EPSILON)
  /\ \E i, j \in DOMAIN CCIs :
       /\ Gt(CCIs[i], Zero) /\ Le(CCIs[i], EPSILON)
       /\ Warned(i, CciLowWarning)
       /\ Gt(CCIs[j], EPSILON) /\ ~Warned(j, CciLowWarning)
       /\ Gt(CIIs[j], Zero)

\* The sanitized masses of the caller's components.
SanitizedMasses == [i \in DOMAIN components |-> Number(components[i].massKg)]

\* C16: the returned PCI is clamp01(sum(mass_i * CCI_i) / sum(mass_i)) over
\* the sanitized masses and the CCIs of the result.
C16_PciWeightedMean ==
  Returned =>
    /\ Result.PCI =
         Clamped(Div(Sum([i \in DOMAIN CCIs |-> Mul(SanitizedMasses[i], CCIs[i])]),
                     Sum(SanitizedMasses)),
                 Zero, One)
    /\ Mul(Result.PCI, Sum(SanitizedMasses))
         = Sum([i \in DOMAIN CCIs |-> Mul(SanitizedMasses[i], CCIs[i])])

\* A returned result of a light and a heavy component of different CCI,
\* whose PCI lies nearer to the CCI of the heavy one.
C16_Witness ==
  /\ Returned
  /\ \E i, j \in DOMAIN CCIs :
       /\ Lt(SanitizedMasses[i], SanitizedMasses[j])
       /\ Lt(CCIs[i], CCIs[j])
       /\ Lt(Div(Add(CCIs[i], CCIs[j]), Two), Result.PCI)
       /\ Lt(Result.PCI, CCIs[j])

---------------------------------------------------------------------------
(* computePCI called on its own, as exported on PCICircularity *)

\* Records as computePCI reads them: a mass, which may be zero or negative,
\* and a CCI, which may be missing.
PciRecords ==
  {[massKg |-> m, CCI |-> c] :
     m \in {Zero, One, Three, R(-1, 1)}, c \in Grid \cup {Undefined}}

InitPci ==
  /\ components \in ListsOf(PciRecords)
  /\ productParams = ParamsRecord(Zero, Zero, Zero, One, One, One, One)
  /\ outcome = NoOutcome
  /\ upload = NoUpload
  /\ ui = NoUi

\* One call PCICircularity.computePCI(components); the function has no
\* throw statement.
InvokePCI ==
  /\ outcome' = [status |-> "returned", message |-> "", id |-> "",
                 value |-> computePCI(components)]
  /\ UNCHANGED <<components, productParams, upload, ui>>

SpecPci == InitPci /\ [][InvokePCI]_vars

\* The total mass of the records handed to computePCI.
PciTotalMass == Sum([i \in DOMAIN components |-> components[i].massKg])

\* C17 as stated: computePCI fails when the total mass of its components is
\* 0 and returns no PCI value.
C17_ZeroMassFails ==
  (outcome.status # "none" /\ PciTotalMass = Zero) => Thrown

\* C17 amended: computePCI does not fail when the total mass of its
\* components is 0 (or negative): it returns the PCI value 0.
C17_ZeroMassReturnsZero ==
  (outcome.status # "none" /\ Le(PciTotalMass, Zero)) =>
    /\ Returned
    /\ Result = Zero

\* computePCI has returned 0 for two records of mass 0 and CCI 1.
C17_Witness ==
  /\ Returned
  /\ Len(components) = 2
  /\ \A i \in DOMAIN components :
       components[i].massKg = Zero /\ components[i].CCI = One
  /\ PciTotalMass = Zero
  /\ Result = Zero

---------------------------------------------------------------------------
(* The result bundle *)

\* Every check of the pipeline passes on the caller's inputs.
ValidInputs ==
  /\ MassesValid
  /\ ~MissingUseInput /\ Gt(UseDenominator, Zero)
  /\ isFinite(UseQuotient) /\ Gt(UseQuotient, Zero)
  /\ \A i \in DOMAIN components : ~BadEfficiency(components[i])

FlowKeys == {"V", "W", "Rin", "Rout", "absR", "C"}

\* C18: when every validation passes the call returns a complete result,
\* warnings or not: one enriched component per input component, in input
\* order with the same id, each with numeric LFI, CCI, CII, a flows bundle
\* and a warnings list; PCI, X and M_total = the sum of the sanitized
\* masses; one debug entry per component repeating its id, V, W, Rin, Rout,
\* absR, C, LFI and CCI.
C18_CompleteResult ==
  (outcome.status # "none" /\ ValidInputs) =>
    /\ Returned
    /\ {"components", "PCI", "X", "M_total", "debug"} \subseteq DOMAIN Result
    /\ Result.PCI.k = "num" /\ Result.X.k = "num"
    /\ Result.X = UseQuotient
    /\ Result.M_total = Sum(SanitizedMasses)
    /\ DOMAIN Result.components = DOMAIN components
    /\ DOMAIN Result.debug = DOMAIN components
    /\ \A i \in DOMAIN components :
         LET c == Result.components[i]
             d == Result.debug[i]
         IN  /\ {"id", "massKg", "LFI", "CCI", "CII", "flows", "warnings"} \subseteq DOMAIN c
             /\ c.id = components[i].id
             /\ c.massKg = SanitizedMasses[i]
             /\ c.LFI.k = "num" /\ c.CCI.k = "num" /\ c.CII.k = "num"
             /\ FlowKeys \cup {"linear", "wasteBreakdown", "recyclingBreakdown"}
                  \subseteq DOMAIN c.flows
             /\ \A key \in FlowKeys : c.flows[key].k = "num"
             /\ DOMAIN c.warnings = 1..Len(c.warnings)
             /\ \A n \in DOMAIN c.warnings :
                  c.warnings[n] \in {PciZeroWarning, CciLowWarning,
                                     CciClippedWarning, DivisionWarning}
             /\ DOMAIN d = {"id", "LFI", "CCI"} \cup FlowKeys
             /\ d.id = c.id /\ d.LFI = c.LFI /\ d.CCI = c.CCI
             /\ \A key \in FlowKeys : d[key] = c.flows[key]

\* A returned result of two components in which one has a clipped CCI and
\* both of its warnings while the other takes the whole CII.
C18_Witness ==
  /\ Returned /\ ValidInputs
  /\ Len(Result.components) = 2 /\ Len(Result.debug) = 2
  /\ \E i, j \in DOMAIN Result.components :
       /\ Result.components[i].warnings = <<CciClippedWarning, CciLowWarning>>
       /\ Result.components[j].warnings = <<>>
       /\ CIIs[j] = Hundred
       /\ Result.debug[i].CCI = Zero

\* A returned result with PCI = 0 whose components carry the clipping and the
\* 'PCI equals 0' warnings.
C18_WitnessPciZero ==
  /\ Returned /\ ValidInputs
  /\ Result.PCI = Zero
  /\ \A i \in DOMAIN Result.components :
       Result.components[i].warnings = <<CciClippedWarning, PciZeroWarning>>

---------------------------------------------------------------------------
(* Component independence *)

\* The warnings computeComponentIndicators attaches.
IsIndicatorWarning(w) == w \in {CciClippedWarning, DivisionWarning}

\* What the per-component stages leave in an enriched component: the flows
\* bundle, LFI, CCI and the warnings of computeComponentIndicators.
PerComponentPart(c) ==
  [flows |-> c.flows, LFI |-> c.LFI, CCI |-> c.CCI,
   warnings |-> SelectSeq(c.warnings, IsIndicatorWarning)]

\* The call on component i alone, and on the list in reverse order, with the
\* same product parameters.
Alone(i) == computeCircularityIndicators(<<components[i]>>, productParams)
Reversed == [i \in DOMAIN components |-> components[Len(components) + 1 - i]]
OnReversed == computeCircularityIndicators(Reversed, productParams)

\* C19: in a returned result each component's flows, LFI, CCI and
\* per-component warnings are those of the call on that component alone and
\* of the call on the reversed list, with the same product parameters.
C19_ComponentIndependence ==
  Returned =>
    \A reversed \in {OnReversed} :
      /\ ~reversed.thrown
      /\ \A i \in DOMAIN components : \A alone \in {Alone(i)} :
           /\ ~alone.thrown
           /\ \A part \in {PerComponentPart(Result.components[i])} :
                /\ part = PerComponentPart(alone.value.components[1])
                /\ part = PerComponentPart(
                            reversed.value.components[Len(components) + 1 - i])

\* A returned result of two different components in which one has the same
\* flows, LFI and CCI as when computed alone, but another CII and PCI.
C19_Witness ==
  /\ Returned
  /\ Len(components) = 2
  /\ [components[1] EXCEPT !.id = ""] # [components[2] EXCEPT !.id = ""]
  /\ \E i \in DOMAIN components :
       /\ Gt(CCIs[i], Zero)
       /\ Result.components[i].flows = Alone(i).value.components[1].flows
       /\ CIIs[i] # Alone(i).value.components[1].CII
       /\ Result.PCI # Alone(i).value.PCI

---------------------------------------------------------------------------
(* CSV helpers (csv-utils.js).  A CSV text is the sequence of its lines and  *)
(* a line the sequence of its cells: join(',') builds a line from cells    *)
(* and split(',') recovers them, no cell of the model holding a comma.      *)

FACTOR_COLUMNS ==
  <<"material", "process", "Fr_percent", "Efp_percent", "Ecp_percent",
    "Cfp_percent", "Ccp_percent", "Ems_percent", "Erfp_percent">>

\* The header of the input-factor template as the README documents it.
ReadmeFactorColumns ==
  <<"component_id", "Fr_percent", "Efp_percent", "Ecp_percent",
    "Cfp_percent", "Ccp_percent", "Ems_percent", "Erfp_percent">>

PercentFields == <<"Fr", "Efp", "Ecp", "Cfp", "Ccp", "Ems", "Erfp">>

\* `${header}\n${example}\n`: the text ends with an empty line.
generateInputFactorsTemplateCsv ==
  <<FACTOR_COLUMNS,
    <<"Polyamide", "Injection-molding", "0", "100", "95", "0", "100", "30", "30">>,
    <<"">>>>

\* String.prototype.trim and toLowerCase on the cells of the model.
Trim(s) == IF s = " " THEN "" ELSE s
ToLowerCase(s) ==
  CASE s = "Polyamide" -> "polyamide"
    [] s = "Steel" -> "steel"
    [] s = "Injection-molding" -> "injection-molding"
    [] s = "FR-4" -> "fr-4"
    [] s = "Electronics assembly" -> "electronics assembly"
    [] s = "Aluminum" -> "aluminum"
    [] s = "Die-casting" -> "die-casting"
    [] OTHER -> s

\* Number(cell) of a cell text.
CellNumber(s) ==
  CASE s \in {"", " ", "0"} -> Zero
    [] s = "0.16" -> R(4, 25)
    [] s = "30" -> R(30, 1)
    [] s = "50" -> R(50, 1)
    [] s = "95" -> R(95, 1)
    [] s = "100" -> Hundred
    [] s = "150" -> R(150, 1)
    [] OTHER -> NaN

Includes(list, x) == \E i \in DOMAIN list : list[i] = x

ensureColumns(actual, expected) ==
  LET Missing(col) == ~Includes(actual, col)
      missing == SelectSeq(expected, Missing)
  IN  IF Len(missing) > 0
        THEN Throw("CSV is missing required columns", missing)
        ELSE Return(Undefined)

\* A line of whitespace only: line.trim().length is 0.
BlankLine(line) == Len(line) = 1 /\ Trim(line[1]) = ""

\* csvString.trim(): the blank lines before the first and after the last
\* line with text go.
TrimText(csv) ==
  LET filled == {i \in DOMAIN csv : ~BlankLine(csv[i])}
      first == CHOOSE i \in filled : \A j \in filled : i <= j
      last == CHOOSE i \in filled : \A j \in filled : j <= i
  IN  IF filled = {} THEN <<>> ELSE SubSeq(csv, first, last)

\* parseCsv on its path without Papa Parse (that library is not part of the
\* sources): the header line, then one record per non-blank line, a missing
\* cell read as ''.  Of two columns with one name the later one stays.
parseCsv(csv, expectedColumns) ==
  LET Records(headers, lines, checked) ==
        LET Cell(line, header) ==
              LET index == CHOOSE i \in DOMAIN headers :
                             /\ headers[i] = header
                             /\ \A j \in DOMAIN headers : headers[j] = header => j <= i
              IN  IF index <= Len(line) THEN Trim(line[index]) ELSE ""
            NonBlank(line) == ~BlankLine(line)
            Row(line) == [header \in {headers[i] : i \in DOMAIN headers} |->
                            Cell(line, header)]
            Rows(kept) == Return([n \in DOMAIN kept |-> Row(kept[n])])
        IN  IF checked.thrown THEN checked ELSE Rows(SelectSeq(lines, NonBlank))
      Headers(headerLine, lines) ==
        LET Checked(headers) ==
              Records(headers, lines, ensureColumns(headers, expectedColumns))
        IN  Checked([i \in DOMAIN headerLine |-> Trim(headerLine[i])])
      Parse(trimmed) ==
        IF Len(trimmed) = 0 THEN Throw("CSV appears to be empty.", "")
        ELSE Headers(Head(trimmed), Tail(trimmed))
  IN  Parse(TrimText(csv))

parseRequiredNumber(value, field, rowNumber) ==
  IF ~isFinite(CellNumber(value))
    THEN Throw("must be a number.", <<rowNumber, field>>)
    ELSE Return(CellNumber(value))

parsePercent(value, field, rowNumber) ==
  LET Percent(num) == IF num.thrown THEN num ELSE Return(clamp01(Div(num.value, Hundred)))
  IN  Percent(parseRequiredNumber(value, field, rowNumber))

buildFactorKey(material, process) ==
  <<ToLowerCase(Trim(material)), ToLowerCase(Trim(process))>>

\* The Map of parseInputFactorsCsv is a function from keys to entries; of
\* two rows with one key the later one stays.
parseInputFactorsCsv(csv) ==
  LET Entry(row, rowNumber) ==
        LET material == Trim(row.material)
            process == Trim(row.process)
            percents == MapOrThrow([f \in DOMAIN PercentFields |->
                          parsePercent(row[PercentFields[f] \o "_percent"],
                                       PercentFields[f] \o "_percent", rowNumber)])
        IN  IF material = "" /\ process = ""
              THEN Throw("material and/or process is required in the factors CSV.",
                         rowNumber)
            ELSE IF percents.thrown THEN percents
            ELSE Return([key |-> buildFactorKey(material, process),
                         entry |-> [material |-> material, process |-> process,
                                    Fr |-> percents.value[1], Efp |-> percents.value[2],
                                    Ecp |-> percents.value[3], Cfp |-> percents.value[4],
                                    Ccp |-> percents.value[5], Ems |-> percents.value[6],
                                    Erfp |-> percents.value[7]]])
      ToMap(entries) ==
        IF entries.thrown THEN entries
        ELSE Return([key \in {entries.value[i].key : i \in DOMAIN entries.value} |->
                       entries.value[CHOOSE i \in DOMAIN entries.value :
                          /\ entries.value[i].key = key
                          /\ \A j \in DOMAIN entries.value :
                               entries.value[j].key = key => j <= i].entry])
      Rows(parsed) ==
        IF parsed.thrown THEN parsed
        ELSE ToMap(MapOrThrow([i \in DOMAIN parsed.value |->
                                 Entry(parsed.value[i], i + 1)]))
  IN  Rows(parseCsv(csv, FACTOR_COLUMNS))

---------------------------------------------------------------------------
(* The input-factor CSV: one call of generateInputFactorsTemplateCsv or of  *)
(* parseInputFactorsCsv on the text in upload.                              *)

InvokeGenerateTemplate ==
  /\ outcome' = [status |-> "returned", message |-> "", id |-> "",
                 value |-> generateInputFactorsTemplateCsv,
                 call |-> "generateInputFactorsTemplateCsv"]
  /\ UNCHANGED <<components, productParams, upload, ui>>

InvokeParseFactors ==
  LET OutcomeOf(call) ==
        [status |-> IF call.thrown THEN "thrown" ELSE "returned",
         message |-> call.message, id |-> call.id, value |-> call.value,
         call |-> "parseInputFactorsCsv"]
  IN  /\ outcome' = OutcomeOf(parseInputFactorsCsv(upload))
      /\ UNCHANGED <<components, productParams, upload, ui>>

\* The percent cells of a row: the template's, one above 100, one with an
\* empty cell, one that is no number.
PercentCells ==
  {<<"0", "100", "95", "0", "100", "30", "30">>,
   <<"50", "100", "100", "150", "50", "0", "30">>,
   <<"", "100", "95", "0", "100", "30", "30">>,
   <<"0", "100", "abc", "0", "100", "30", "30">>}

\* Rows under the header the code writes: material, process, percents; a
\* row cut short after its process; a blank line.
FactorRows ==
  {<<material, process>> \o cells :
     material \in {"Polyamide", "polyamide", " "},
     process \in {"Injection-molding", ""},
     cells \in PercentCells}
  \cup {<<"Steel", "Injection-molding">>, <<"">>}

\* Rows under the header the README documents: component id, percents.
ReadmeRows ==
  {<<id>> \o cells : id \in {"C1", "C2"}, cells \in PercentCells} \cup {<<"">>}

\* Texts of up to MaxComponents lines drawn from `rows`.
LinesOf(rows) == UNION {[1..len -> rows] : len \in 0..MaxComponents}

CsvFiles ==
  {<<FACTOR_COLUMNS>> \o rows : rows \in LinesOf(FactorRows)}
  \cup {<<ReadmeFactorColumns>> \o rows : rows \in LinesOf(ReadmeRows)}
  \cup {<<>>, <<<<" ">>>>, generateInputFactorsTemplateCsv}

InitCsv ==
  /\ upload \in CsvFiles
  /\ ui = NoUi
  /\ components = <<>>
  /\ productParams = ParamsRecord(Zero, One, One, One, One, One, One)
  /\ outcome = NoOutcome

SpecCsv == InitCsv /\ [][InvokeGenerateTemplate \/ InvokeParseFactors]_vars

Generated == outcome.status # "none" /\ outcome.call = "generateInputFactorsTemplateCsv"
Parsed == outcome.status # "none" /\ outcome.call = "parseInputFactorsCsv"

\* The file has the README's header, at least one row, and cells that are
\* all numbers.
ReadmeFile ==
  /\ Len(upload) >= 2
  /\ upload[1] = ReadmeFactorColumns
  /\ \A n \in 2..Len(upload) :
        /\ Len(upload[n]) = Len(ReadmeFactorColumns)
        /\ \A i \in 2..Len(upload[n]) : isFinite(CellNumber(upload[n][i]))

\* C20, as stated: the input-factor CSV format of the README is the one
\* the tool produces and accepts: the template generateInputFactorsTemplateCsv
\* returns starts with the README's header, and parseInputFactorsCsv on a
\* file with that header returns its rows keyed by component id.
C20_ReadmeFormat ==
  /\ Generated => outcome.value[1] = ReadmeFactorColumns
  /\ Parsed /\ ReadmeFile =>
        /\ Returned
        /\ DOMAIN outcome.value = {upload[n][1] : n \in 2..Len(upload)}

\* What the code does with the README's own example file: the call fails,
\* naming material and process as missing columns.
C20_ReadmeFileRejected ==
  /\ Parsed
  /\ upload = <<ReadmeFactorColumns,
                <<"C1", "0", "100", "95", "0", "100", "30", "30">>>>
  /\ Thrown
  /\ outcome.message = "CSV is missing required columns"
  /\ outcome.id = <<"material", "process">>

---------------------------------------------------------------------------
(* The linear flow index and the component indicator *)

\* The sanitized factor `key` of the caller's component i.
SanitizedFactor(i, key) == Clamped(Number(components[i][key]), Zero, One)

\* M / (Ecp * Efp) of the caller's component i.
LinearReference(i) ==
  Div(SanitizedMasses[i], Mul(SanitizedFactor(i, "Ecp"), SanitizedFactor(i, "Efp")))

\* (V + W + 0.5*absR + 0.5*|C|) / (V_linear + W_linear) over the flows of
\* component i of the result.
LfiOf(i) ==
  LET flows == Result.components[i].flows
  IN  Div(Add(Add(Add(flows.V, flows.W), Mul(Half, flows.absR)),
              Mul(Half, MathAbs(flows.C))),
          Add(flows.linear.V, flows.linear.W))

\* C21: for every component of every returned result,
\* LFI = (V + W + 0.5*absR + 0.5*|C|) / (V_linear + W_linear) with
\* V_linear = W_linear = M / (Ecp*Efp), and CCI = clamp01(1 - LFI/X) for the
\* one product-level X = (L*I)/(Ld*Id) of the result.
C21_LfiAndCci ==
  Returned =>
    /\ Result.X = UseQuotient
    /\ \A i \in DOMAIN Result.components :
         /\ Result.components[i].flows.linear.V = LinearReference(i)
         /\ Result.components[i].flows.linear.W = LinearReference(i)
         /\ Result.components[i].LFI = LfiOf(i)
         /\ Result.components[i].CCI =
              Clamped(Sub(One, Div(Result.components[i].LFI, Result.X)), Zero, One)

\* A returned result of two components of different LFI under a use factor
\* X > 1, one of them with lossy production (its linear reference flow
\* exceeds its mass) and a CCI strictly between 0 and 1.
C21_Witness ==
  /\ Returned
  /\ Gt(Result.X, One)
  /\ \E i, j \in DOMAIN Result.components :
       /\ Gt(Result.components[i].flows.linear.V, SanitizedMasses[i])
       /\ Gt(CCIs[i], Zero) /\ Lt(CCIs[i], One)
       /\ Result.components[j].LFI # Result.components[i].LFI

\* C22: a component of a returned result carries the 'CCI clipped to 0'
\* warning if and only if its unclamped 1 - LFI/X is <= 0, which is the case
\* exactly when its CCI is 0; a component with CCI > 0 never carries it.
C22_ClippedWarning ==
  Returned =>
    \A i \in DOMAIN Result.components :
      /\ Warned(i, CciClippedWarning) <=> Le(Unclamped(i), Zero)
      /\ Le(Unclamped(i), Zero) <=> CCIs[i] = Zero
      /\ Gt(CCIs[i], Zero) => ~Warned(i, CciClippedWarning)

\* A returned result with a component whose 1 - LFI/X is exactly 0, warned,
\* beside one whose CCI is above 0, not warned.
C22_Witness ==
  /\ Returned
  /\ \E i, j \in DOMAIN Result.components :
       /\ Unclamped(i) = Zero /\ Warned(i, CciClippedWarning)
       /\ Gt(CCIs[j], Zero) /\ ~Warned(j, CciClippedWarning)

\* A returned result with a component whose 1 - LFI/X is negative, warned.
C22_WitnessNegative ==
  /\ Returned
  /\ \E i \in DOMAIN Result.components :
       Lt(Unclamped(i), Zero) /\ CCIs[i] = Zero /\ Warned(i, CciClippedWarning)

\* A returned result with a component whose CCI is above 0 and below EPSILON,
\* not warned.
C22_WitnessTiny ==
  /\ Returned
  /\ \E i \in DOMAIN Result.components :
       /\ Gt(CCIs[i], Zero) /\ Lt(CCIs[i], EPSILON)
       /\ ~Warned(i, CciClippedWarning)

---------------------------------------------------------------------------
(* Mass flows against the reference formulas *)

\* Single components over every combination of recycled content, production
\* efficiencies, scrap recovery and end-of-life efficiencies, of two masses.
FlowComponents ==
  {ComponentRecord("", massKg, Fr, Efp, Ecp, Cfp, Ccp, Ems, Erfp) :
     massKg \in {One, Three}, Fr \in Grid, Efp \in {Half, One},
     Ecp \in {R(1, 4), One}, Cfp \in {Zero, Half}, Ccp \in {Zero, Half},
     Ems \in {Zero, Half, One}, Erfp \in {Zero, Half}}

InitFlows ==
  /\ components \in {<<[id |-> IdOf(1)] @@ c>> : c \in FlowComponents}
  /\ productParams \in {ParamsRecord(Fu, Cu, Cr, One, One, One, One) :
        Fu \in Grid, Cu \in Grid, Cr \in Grid}
  /\ outcome = NoOutcome
  /\ upload = NoUpload
  /\ ui = NoUi

SpecFlows == InitFlows /\ [][Next]_vars

\* The product fraction `key` of the caller's parameters, clamped to [0,1].
ProductFraction(key) == Clamped(Number(productParams[key]), Zero, One)

\* (1 - Fu) * M of the caller's component i.
FeedstockBase(i) == Mul(Sub(One, ProductFraction("Fu")), SanitizedMasses[i])

\* The reference formulas of V, Rin and Rout for the caller's component i.
ReferenceV(i) ==
  Mul(Div(FeedstockBase(i), Mul(SanitizedFactor(i, "Ecp"), SanitizedFactor(i, "Efp"))),
      Sub(One, SanitizedFactor(i, "Fr")))

ReferenceRin(i) ==
  Div(FeedstockBase(i), Mul(SanitizedFactor(i, "Efp"), SanitizedFactor(i, "Ecp")))

ReferenceRout(i) ==
  Add(Add(Mul(Mul(ReferenceRin(i), Sub(One, SanitizedFactor(i, "Efp"))),
              SanitizedFactor(i, "Cfp")),
          Mul(Mul(Div(FeedstockBase(i), SanitizedFactor(i, "Ecp")),
                  Sub(One, SanitizedFactor(i, "Ecp"))),
              SanitizedFactor(i, "Ccp"))),
      Mul(Mul(Mul(SanitizedFactor(i, "Erfp"), SanitizedFactor(i, "Ems")),
              ProductFraction("Cr")),
          SanitizedMasses[i]))

\* C23: for sanitized factors with Efp > 0 and Ecp > 0 and Fu, Cu, Cr in
\* [0,1] the flows of a returned result are
\* V = ((1-Fu)*M/(Ecp*Efp))*(1-Fr), Rin = (1-Fu)*M/(Efp*Ecp),
\* Rout = Rin*(1-Efp)*Cfp + ((1-Fu)*M/Ecp)*(1-Ecp)*Ccp + Erfp*Ems*Cr*M,
\* absR = |Rin - Rout| and C = M*(Fu - Cu), negative exactly when Cu > Fu.
C23_ReferenceFlows ==
  Returned =>
    \A i \in DOMAIN Result.components :
      LET flows == Result.components[i].flows
      IN  /\ flows.V = ReferenceV(i)
          /\ flows.Rin = ReferenceRin(i)
          /\ flows.Rout = ReferenceRout(i)
          /\ flows.absR = MathAbs(Sub(ReferenceRin(i), ReferenceRout(i)))
          /\ flows.C = Mul(SanitizedMasses[i],
                           Sub(ProductFraction("Fu"), ProductFraction("Cu")))
          /\ Lt(flows.C, Zero) <=> Gt(productParams.Cu, productParams.Fu)

\* A returned result with a negative reused mass (Cu > Fu > 0) in which
\* each of the three terms of Rout is above 0 and V lies below Rin.
C23_Witness ==
  /\ Returned
  /\ Gt(productParams.Fu, Zero) /\ Gt(productParams.Cu, productParams.Fu)
  /\ \E i \in DOMAIN Result.components :
       LET flows == Result.components[i].flows
       IN  /\ Lt(flows.C, Zero)
           /\ Gt(flows.recyclingBreakdown.Rfp, Zero)
           /\ Gt(flows.recyclingBreakdown.Rcp, Zero)
           /\ Gt(flows.recyclingBreakdown.REoL, Zero)
           /\ Gt(flows.V, Zero) /\ Lt(flows.V, flows.Rin)

\* The reference formulas of the five waste flows for the caller's
\* component i.
ReferenceWaste(i) ==
  [Wfp |-> Mul(Mul(Div(FeedstockBase(i),
                       Mul(SanitizedFactor(i, "Efp"), SanitizedFactor(i, "Ecp"))),
                   Sub(One, SanitizedFactor(i, "Efp"))),
               Sub(One, SanitizedFactor(i, "Cfp"))),
   Wcp |-> Mul(Mul(Div(FeedstockBase(i), SanitizedFactor(i, "Ecp")),
                   Sub(One, SanitizedFactor(i, "Ecp"))),
               Sub(One, SanitizedFactor(i, "Ccp"))),
   Wu |-> Mul(SanitizedMasses[i],
              MathMax(Zero, Sub(Sub(One, ProductFraction("Cu")), ProductFraction("Cr")))),
   Wms |-> Mul(Mul(SanitizedMasses[i], Sub(One, SanitizedFactor(i, "Ems"))),
               ProductFraction("Cr")),
   Wrfp |-> Mul(Mul(SanitizedMasses[i], SanitizedFactor(i, "Ems")),
                Sub(One, SanitizedFactor(i, "Erfp")))]

WasteKeys == {"Wfp", "Wcp", "Wu", "Wms", "Wrfp"}

\* C24: for sanitized factors with Efp > 0 and Ecp > 0 and Fu, Cu, Cr in
\* [0,1] the waste of a returned result is W = Wfp + Wcp + Wu + Wms + Wrfp
\* with Wfp = ((1-Fu)*M/(Efp*Ecp))*(1-Efp)*(1-Cfp),
\* Wcp = ((1-Fu)*M/Ecp)*(1-Ecp)*(1-Ccp), Wu = M*max(0, 1-Cu-Cr),
\* Wms = M*(1-Ems)*Cr and Wrfp = M*Ems*(1-Erfp); each sub-flow is >= 0 and
\* the reported breakdown sums to W.
C24_WasteBreakdown ==
  Returned =>
    \A i \in DOMAIN Result.components :
      LET flows == Result.components[i].flows
          waste == flows.wasteBreakdown
      IN  /\ DOMAIN waste = WasteKeys
          /\ waste = ReferenceWaste(i)
          /\ \A key \in WasteKeys : Ge(waste[key], Zero)
          /\ flows.W = Add(Add(Add(Add(waste.Wfp, waste.Wcp), waste.Wu), waste.Wms),
                           waste.Wrfp)

\* A returned result in which each of the five waste flows is above 0.
C24_Witness ==
  /\ Returned
  /\ \E i \in DOMAIN Result.components :
       \A key \in WasteKeys : Gt(Result.components[i].flows.wasteBreakdown[key], Zero)

\* A returned result with Cu + Cr > 1, where the unrecovered mass Wu is cut
\* off at 0.
C24_WitnessOverCollected ==
  /\ Returned
  /\ Gt(Add(productParams.Cu, productParams.Cr), One)
  /\ \E i \in DOMAIN Result.components :
       Result.components[i].flows.wasteBreakdown.Wu = Zero

---------------------------------------------------------------------------
(* The order of the checks *)

\* Records that break the mass check, the efficiency check, or both, beside
\* a well-formed one.
OrderChoices ==
  {WellFormed,
   [WellFormed EXCEPT !.massKg = Zero],
   [WellFormed EXCEPT !.massKg = Undefined],
   [WellFormed EXCEPT !.Efp = Zero],
   [WellFormed EXCEPT !.Ecp = R(-1, 2)],
   [WellFormed EXCEPT !.massKg = Zero, !.Efp = Zero]}

\* Use inputs that pass, are missing, make Id * Ld = 0 or negative, or make
\* X = 0.
OrderParams ==
  {ParamsRecord(Zero, Half, Half, Ld, One, One, I) :
     Ld \in {One, Undefined, Zero, R(-1, 1)}, I \in {One, Undefined, Zero}}

InitOrder ==
  /\ components \in ListsOf(OrderChoices) \cup {<<>>}
  /\ productParams \in OrderParams
  /\ outcome = NoOutcome
  /\ upload = NoUpload
  /\ ui = NoUi

SpecOrder == InitOrder /\ [][Next]_vars

NoFailure == <<"", "">>

\* The first position of the caller's list that satisfies Bad.
FirstPosition(Bad(_)) ==
  CHOOSE i \in DOMAIN components :
    Bad(components[i]) /\ \A j \in 1..(i - 1) : ~Bad(components[j])

HasBadMass(c) == BadMass(c.massKg)

\* The Error of the earliest stage the caller's inputs fail, as its message
\* and the component id it names.
EarliestFailure ==
  IF Len(components) = 0
    THEN <<"At least one component is required to compute circularity indicators.", "">>
  ELSE IF \E i \in DOMAIN components : HasBadMass(components[i])
    THEN <<"Component must have a positive mass in kg.",
           components[FirstPosition(HasBadMass)].id>>
  ELSE IF MissingUseInput
    THEN <<"Missing lifetime or intensity input needed for Eq. 8.", "">>
  ELSE IF Le(UseDenominator, Zero)
    THEN <<"Expected lifetime (Ld) and intensity (Id) must be positive numbers.", "">>
  ELSE IF ~isFinite(UseQuotient) \/ Le(UseQuotient, Zero)
    THEN <<"Use factor X (Eq. 8) must be positive. Check L, Ld, I, and Id.", "">>
  ELSE IF \E i \in DOMAIN components : BadEfficiency(components[i])
    THEN <<"Component must have positive Efp and Ecp values.",
           components[FirstPosition(BadEfficiency)].id>>
  ELSE NoFailure

\* C25: a call whose inputs break several preconditions at once reports the
\* failure of the earliest stage: the empty list, then the first component
\* in list order with an invalid mass, then the use factor, then the first
\* component in list order with a non-positive Efp or Ecp; a call breaking
\* none returns.
C25_EarliestFailure ==
  outcome.status # "none" =>
    IF EarliestFailure = NoFailure
      THEN Returned
      ELSE Thrown /\ <<outcome.message, outcome.id>> = EarliestFailure

\* A call rejected for the mass of its second component although its first
\* component has no feedstock efficiency and its use factor is invalid.
C25_Witness ==
  /\ Thrown
  /\ Len(components) = 2
  /\ BadEfficiency(components[1]) /\ ~HasBadMass(components[1])
  /\ HasBadMass(components[2])
  /\ MissingUseInput \/ Le(UseDenominator, Zero)
  /\ outcome.message = "Component must have a positive mass in kg."
  /\ outcome.id = components[2].id

\* A call rejected for its use factor although a component has no feedstock
\* efficiency.
C25_WitnessUseFactor ==
  /\ Thrown
  /\ \E i \in DOMAIN components : BadEfficiency(components[i])
  /\ \A i \in DOMAIN components : ~HasBadMass(components[i])
  /\ ~MissingUseInput /\ Gt(UseDenominator, Zero) /\ Le(UseQuotient, Zero)
  /\ outcome.message = "Use factor X (Eq. 8) must be positive. Check L, Ld, I, and Id."

---------------------------------------------------------------------------
(* The CII denominator *)

\* C26: in every returned result PCI > EPSILON implies that some component
\* has CCI > EPSILON and that the CII denominator exceeds EPSILON; the CIIs
\* sum to 100 exactly when PCI > EPSILON and are all 0 otherwise; and when
\* PCI > EPSILON a component has the 'CCI too low' warning if and only if
\* its own CCI is <= EPSILON.
C26_DenominatorBranch ==
  Returned =>
    /\ Gt(Result.PCI, EPSILON) =>
         /\ \E i \in DOMAIN CCIs : Gt(CCIs[i], EPSILON)
         /\ Gt(CiiDenominator, EPSILON)
         /\ \A i \in DOMAIN CCIs : Warned(i, CciLowWarning) <=> Le(CCIs[i], EPSILON)
    /\ Gt(Result.PCI, EPSILON) <=> Sum(CIIs) = Hundred
    /\ Le(Result.PCI, EPSILON) => \A i \in DOMAIN CIIs : CIIs[i] = Zero

\* A returned result with PCI > EPSILON of two components with CCI > EPSILON
\* and different CII, neither warned, the CIIs summing to 100.
C26_Witness ==
  /\ Returned
  /\ Gt(Result.PCI, EPSILON)
  /\ Len(CCIs) = 2
  /\ \A i \in DOMAIN CCIs : Gt(CCIs[i], EPSILON) /\ ~Warned(i, CciLowWarning)
  /\ CIIs[1] # CIIs[2]
  /\ Sum(CIIs) = Hundred

\* A returned result with PCI > EPSILON in which one component has a CCI
\* above 0 and not above EPSILON: it alone is warned and the other has
\* CII 100.
C26_WitnessLowCci ==
  /\ Returned
  /\ Gt(Result.PCI, EPSILON)
  /\ \E i, j \in DOMAIN CCIs :
       /\ Gt(CCIs[i], Zero) /\ Le(CCIs[i], EPSILON) /\ Warned(i, CciLowWarning)
       /\ CIIs[j] = Hundred /\ ~Warned(j, CciLowWarning)

\* A returned result with PCI above 0 and not above EPSILON: every CII is 0.
C26_WitnessLowPci ==
  /\ Returned
  /\ Gt(Result.PCI, Zero) /\ Le(Result.PCI, EPSILON)
  /\ Sum(CIIs) = Zero

---------------------------------------------------------------------------
(* CII as a function of the CCIs alone *)

\* The sum of 1/CCI_j over the components of the result with CCI_j > EPSILON.
InverseCciSum ==
  Sum([j \in DOMAIN CCIs |-> IF Gt(CCIs[j], EPSILON) THEN Div(One, CCIs[j]) ELSE Zero])

\* (1/CCI_i) / InverseCciSum: the share of component i, as a fraction.
InverseCciShare(i) == Div(Div(One, CCIs[i]), InverseCciSum)

\* C27, as stated: when PCI > EPSILON, every component of the result has
\* CII_i = 100 * (1/CCI_i) / (sum of 1/CCI_j over CCI_j > EPSILON), here
\* with both sides divided by 100.
C27_InverseShareAsStated ==
  (Returned /\ Gt(Result.PCI, EPSILON)) =>
    \A i \in DOMAIN CCIs : Div(CIIs[i], Hundred) = InverseCciShare(i)

\* C27, amended: when PCI > EPSILON, every component with CCI_i > EPSILON has
\* CII_i = 100 * (1/CCI_i) / (sum of 1/CCI_j over CCI_j > EPSILON) and every
\* component with CCI_i <= EPSILON has CII 0; among the components with
\* CCI > EPSILON a strictly smaller CCI has a strictly larger CII and equal
\* CCIs have equal CIIs, whatever the masses.
C27_InverseShare ==
  (Returned /\ Gt(Result.PCI, EPSILON)) =>
    /\ \A i \in DOMAIN CCIs :
         IF Gt(CCIs[i], EPSILON)
           THEN Div(CIIs[i], Hundred) = InverseCciShare(i)
           ELSE CIIs[i] = Zero
    /\ \A i, j \in DOMAIN CCIs :
         (Gt(CCIs[i], EPSILON) /\ Gt(CCIs[j], EPSILON)) =>
           /\ Lt(CCIs[i], CCIs[j]) => Gt(CIIs[i], CIIs[j])
           /\ CCIs[i] = CCIs[j] => CIIs[i] = CIIs[j]

\* A returned result with PCI > EPSILON of a light and a heavy component of
\* one CCI above EPSILON, each with CII 50.
C27_Witness ==
  /\ Returned
  /\ Gt(Result.PCI, EPSILON)
  /\ \E i, j \in DOMAIN CCIs :
       /\ Lt(SanitizedMasses[i], SanitizedMasses[j])
       /\ CCIs[i] = CCIs[j] /\ Gt(CCIs[i], EPSILON)
       /\ CIIs[i] = R(50, 1) /\ CIIs[j] = R(50, 1)

\* A returned result with PCI > EPSILON in which the heavier component has
\* the smaller CCI and the larger CII.
C27_WitnessOrder ==
  /\ Returned
  /\ Gt(Result.PCI, EPSILON)
  /\ \E i, j \in DOMAIN CCIs :
       /\ Gt(SanitizedMasses[i], SanitizedMasses[j])
       /\ Gt(CCIs[i], EPSILON) /\ Lt(CCIs[i], CCIs[j])
       /\ Gt(CIIs[i], CIIs[j])

\* A returned result with PCI > EPSILON holding a component with CCI 0: its
\* CII is 0, where 1/CCI_i has no value.
C27_WitnessZeroCci ==
  /\ Returned
  /\ Gt(Result.PCI, EPSILON)
  /\ \E i \in DOMAIN CCIs : CCIs[i] = Zero /\ CIIs[i] = Zero

---------------------------------------------------------------------------
(* Mass scaling *)

\* Components of different circularity and mass, one of them with lossy
\* production stages and scrap recovery.
ScaleComponents ==
  CiiComponents \cup {ComponentRecord("", One, Half, Half, One, Half, Zero, One, Half)}

InitScale ==
  /\ components \in ListsOf(ScaleComponents)
  /\ productParams \in ListParams
  /\ outcome = NoOutcome
  /\ upload = NoUpload
  /\ ui = NoUi

SpecScale == InitScale /\ [][Next]_vars

\* Factors a mass is multiplied by: a small one and one above 1.
ScaleFactors == {R(1, 16), Three}

\* The caller's list with the mass of component i multiplied by t.
MassScaled(i, t) ==
  [components EXCEPT ![i] = [@ EXCEPT !.massKg = Mul(t, @)]]

\* The call on the caller's list with the mass of component i multiplied
\* by t.
OnMassScaled(i, t) == computeCircularityIndicators(MassScaled(i, t), productParams)

ScaledFlowKeys == {"V", "W", "Rin", "Rout", "absR", "C"}

\* C28: multiplying the massKg of one component by a positive factor, all
\* else fixed, multiplies its V, W, Rin, Rout, absR, C and linear reference
\* flows by that factor and leaves its LFI and CCI unchanged; the call still
\* returns, and its PCI is the mean of the unchanged CCIs under the new
\* masses.
C28_MassScaling ==
  Returned =>
    \A i \in DOMAIN components : \A t \in ScaleFactors :
      \A scaled \in {OnMassScaled(i, t)} :
        /\ ~scaled.thrown
        /\ \A key \in ScaledFlowKeys :
             scaled.value.components[i].flows[key]
               = Mul(t, Result.components[i].flows[key])
        /\ scaled.value.components[i].flows.linear.V
             = Mul(t, Result.components[i].flows.linear.V)
        /\ scaled.value.components[i].flows.linear.W
             = Mul(t, Result.components[i].flows.linear.W)
        /\ \A j \in DOMAIN components :
             /\ scaled.value.components[j].LFI = Result.components[j].LFI
             /\ scaled.value.components[j].CCI = Result.components[j].CCI
        /\ \A masses \in {[j \in DOMAIN components |->
                             Number(MassScaled(i, t)[j].massKg)]} :
             Mul(scaled.value.PCI, Sum(masses))
               = Sum([j \in DOMAIN CCIs |-> Mul(masses[j], CCIs[j])])

\* A returned result of two components of different CCI, the first with a
\* CCI strictly between 0 and 1 and a reused mass C other than 0: with its
\* mass divided by 16 the PCI moves towards the CCI of the second.
C28_Witness ==
  /\ Returned
  /\ Len(components) = 2
  /\ Gt(CCIs[1], Zero) /\ Lt(CCIs[1], CCIs[2])
  /\ Result.components[1].flows.C # Zero
  /\ Gt(OnMassScaled(1, R(1, 16)).value.PCI, Result.PCI)
  /\ OnMassScaled(1, R(1, 16)).value.components[1].CCI = CCIs[1]

---------------------------------------------------------------------------
(* Product-level fractions as they are given *)

\* Values of Fu, Cu and Cr: on the grid, missing, null, text, non-finite,
\* out of range, or a number held as a string.
FractionValues ==
  Grid \cup {Undefined, Null, NonNumericString, Infinity, R(-1, 2), R(3, 2),
             NumericString(1, 2)}

FractionComponents ==
  {Profile(Three, Half), ComponentRecord("", One, Half, Half, One, Half, Zero, One, Half)}

InitFractions ==
  /\ components \in ListsOf(FractionComponents)
  /\ productParams \in {ParamsRecord(Fu, Cu, Cr, One, Two, One, One) :
        Fu \in FractionValues, Cu \in FractionValues, Cr \in FractionValues}
  /\ outcome = NoOutcome
  /\ upload = NoUpload
  /\ ui = NoUi

SpecFractions == InitFractions /\ [][Next]_vars

\* The caller's parameters with Fu, Cu and Cr replaced by their clamp to
\* [0,1], 0 when missing or not finite.
ClampedParams ==
  [productParams EXCEPT !.Fu = ExpectedFactor(@), !.Cu = ExpectedFactor(@),
                        !.Cr = ExpectedFactor(@)]

\* C29: Fu, Cu and Cr are never rejected: a call with valid components and
\* use inputs returns whatever Fu, Cu and Cr are, and its flows, LFI, CCI,
\* CII and PCI are those of the call with each of the three replaced by its
\* clamp to [0,1] (0 when missing or not finite).
C29_FractionsClamped ==
  outcome.status # "none" =>
    /\ Returned
    /\ \A clamped \in {computeCircularityIndicators(components, ClampedParams)} :
         /\ ~clamped.thrown
         /\ Result.PCI = clamped.value.PCI
         /\ \A i \in DOMAIN Result.components :
              /\ Result.components[i].flows = clamped.value.components[i].flows
              /\ Result.components[i].LFI = clamped.value.components[i].LFI
              /\ Result.components[i].CCI = clamped.value.components[i].CCI
              /\ Result.components[i].CII = clamped.value.components[i].CII

\* A returned call with Fu = 3/2, Cu missing and Cr the string "0.5": no
\* virgin feedstock (Fu taken as 1), the whole mass counted as reused
\* (Cu taken as 0) and material-separation waste above 0 (Cr taken as 0.5).
C29_Witness ==
  /\ Returned
  /\ productParams.Fu = R(3, 2)
  /\ productParams.Cu = Undefined
  /\ productParams.Cr = NumericString(1, 2)
  /\ \E i \in DOMAIN Result.components :
       /\ Result.components[i].flows.V = Zero
       /\ Result.components[i].flows.C = SanitizedMasses[i]
       /\ Gt(Result.components[i].flows.wasteBreakdown.Wms, Zero)


---------------------------------------------------------------------------
(* The page (app.js).  components and productParams are state.components   *)
(* and state.productParams; ui holds state.lastComputation and             *)
(* state.sortDescending, the status line, the two charts as last drawn and *)
(* the file last offered for download.  The manual BoM and factor tables   *)
(* and the rendering of the component table are not part of the model: no  *)
(* handler below reads them.  The numbers a status message or a file shows *)
(* are kept as numbers, not as the digits toFixed prints.                  *)

exampleComponents ==
  <<[name |-> "Housing", material |-> "Polyamide", process |-> "Injection-molding"]
      @@ ComponentRecord("C1", R(4, 25), Zero, One, R(19, 20), Zero, One,
                         R(3, 10), R(3, 10)),
    [name |-> "PCB", material |-> "FR-4", process |-> "Electronics assembly"]
      @@ ComponentRecord("C2", R(1, 50), Zero, One, R(9, 10), Zero, Zero,
                         R(1, 5), R(1, 10)),
    [name |-> "Aluminum bracket", material |-> "Aluminum", process |-> "Die-casting"]
      @@ ComponentRecord("C3", R(1, 20), Half, R(7, 10), R(9, 10), Half, R(9, 10),
                         R(4, 5), R(17, 20))>>

\* state.productParams as the script creates it.
DefaultProductParams ==
  [productName |-> ""]
    @@ ParamsRecord(Zero, R(3, 5), R(14, 25), One, One, One, One)

DEFAULT_STATUS_MESSAGE == "Ready for input."

setStatus(message, type, detail) ==
  [message |-> message, type |-> type, detail |-> detail]

percentToFraction(value) ==
  LET num == CellNumber(value)
  IN  IF ~isFinite(num) THEN Zero
      ELSE MathMax(Zero, MathMin(One, Div(num, Hundred)))

\* validateComponents: the keys in error of every row that has some.
validateComponents(list) ==
  LET IdOfRow(index) == Trim(list[index].id)
      Errors(index) ==
        (IF IdOfRow(index) = ""
              \/ \E earlier \in 1..(index - 1) : IdOfRow(earlier) = IdOfRow(index)
           THEN {"id"} ELSE {})
        \cup (IF ~Gt(list[index].massKg, Zero) THEN {"massKg"} ELSE {})
        \cup {key \in FactorKeys :
                \/ ~isFinite(list[index][key])
                \/ Lt(list[index][key], Zero)
                \/ Gt(list[index][key], One)}
      fieldErrors == [index \in {i \in DOMAIN list : Errors(i) # {}} |-> Errors(index)]
  IN  [valid |-> DOMAIN fieldErrors = {}, fieldErrors |-> fieldErrors]

\* [...data].sort((a, b) => b[key] - a[key]): descending and stable.
SortedDescending(data, key) ==
  LET Before(i, j) ==
        \/ Gt(data[i][key], data[j][key])
        \/ ~Gt(data[j][key], data[i][key]) /\ i < j
      Rank(i) == Cardinality({j \in DOMAIN data : Before(j, i)}) + 1
  IN  [rank \in DOMAIN data |-> data[CHOOSE i \in DOMAIN data : Rank(i) = rank]]

\* updateCharts: each chart is drawn from the list handed over, in the
\* order its sort flag asks for.
updateCharts(data, pci, sortDescending) ==
  [cci |-> [components |-> IF sortDescending.cci
                             THEN SortedDescending(data, "CCI") ELSE data,
            pci |-> pci],
   cii |-> [components |-> IF sortDescending.cii
                             THEN SortedDescending(data, "CII") ELSE data]]

BOM_COLUMNS == <<"component_id", "component_name", "material", "process", "mass_kg">>

DEFAULT_COMPONENT_PARAMS ==
  [Fr |-> Zero, Efp |-> One, Ecp |-> One, Cfp |-> Zero, Ccp |-> Zero,
   Ems |-> Zero, Erfp |-> Zero]

generateBomTemplateCsv ==
  <<BOM_COLUMNS,
    <<"C1", "Housing", "Polyamide", "Injection-molding", "0.16">>,
    <<"">>>>

parseBomCsv(csv) ==
  LET Component(row, rowNumber) ==
        LET mass == parseRequiredNumber(row.mass_kg, "mass_kg", rowNumber)
        IN  IF Trim(row.component_id) = ""
              THEN Throw("component_id is required.", rowNumber)
            ELSE IF mass.thrown THEN mass
            ELSE Return([id |-> Trim(row.component_id),
                         name |-> Trim(row.component_name),
                         material |-> Trim(row.material),
                         process |-> Trim(row.process),
                         massKg |-> mass.value] @@ DEFAULT_COMPONENT_PARAMS)
      Rows(parsed) ==
        IF parsed.thrown THEN parsed
        ELSE MapOrThrow([i \in DOMAIN parsed.value |->
                           Component(parsed.value[i], i + 1)])
  IN  Rows(parseCsv(csv, BOM_COLUMNS))

\* mergeBomData: the parsed rows replace the table; a row whose id the table
\* already has keeps that row's factors (of several, the last one's).
mergeBomData(list, newComponents) ==
  LET Existing(comp) ==
        LET same == {i \in DOMAIN list : list[i].id = comp.id}
            last == CHOOSE i \in same : \A j \in same : j <= i
        IN  IF same = {} THEN comp
            ELSE [key \in DOMAIN comp |->
                    IF key \in FactorKeys THEN list[last][key] ELSE comp[key]]
  IN  [i \in DOMAIN newComponents |-> Existing(newComponents[i])]

\* applyFactorCombosFromCsv: every row whose material and process are a key
\* of the map takes that entry's seven factors.
applyFactorCombosFromCsv(list, factorMap) ==
  LET Updated(comp) ==
        LET key == buildFactorKey(comp.material, comp.process)
        IN  IF key \notin DOMAIN factorMap THEN comp
            ELSE [field \in DOMAIN comp |->
                    IF field \in FactorKeys THEN factorMap[key][field]
                    ELSE comp[field]]
  IN  IF DOMAIN factorMap = {}
        THEN Throw("No input-factor rows were detected in the CSV.", "")
        ELSE Return([i \in DOMAIN list |-> Updated(list[i])])

\* exportComponentsToBomCsv and exportResultsCsv: the header, then one line
\* per component.
exportComponentsToBomCsv(list) ==
  <<BOM_COLUMNS>>
    \o [i \in DOMAIN list |->
          <<list[i].id, list[i].name, list[i].material, list[i].process,
            list[i].massKg>>]
    \o <<<<"">>>>

exportResultsCsv(list) ==
  <<<<"component_id", "component_name", "mass_kg", "CCI", "CII_percent", "LFI",
      "V", "W", "Rin", "Rout", "absR", "C">>>>
    \o [i \in DOMAIN list |->
          <<list[i].id, list[i].name, list[i].massKg, list[i].CCI, list[i].CII,
            list[i].LFI, list[i].flows.V, list[i].flows.W, list[i].flows.Rin,
            list[i].flows.Rout, list[i].flows.absR, list[i].flows.C>>]
    \o <<<<"">>>>

downloadTextFile(filename, content) == [filename |-> filename, content |-> content]

\* The page after init(): the example data, the product form's defaults.
InitUi ==
  /\ components = exampleComponents
  /\ productParams = DefaultProductParams
  /\ outcome = NoOutcome
  /\ upload = NoUpload
  /\ ui = [NoUi EXCEPT !.status =
             setStatus("Ready. Load CSVs or use the example data to get started.",
                       "info", <<>>)]

\* The rows whose cells are edited and whose delete button is clicked: the
\* first MaxEditedRow rows of the table.
MaxEditedRow == 1

EditedRows == 1..MaxEditedRow

\* A cell edit: the field, the type of its input element, the text typed.
TableEdits ==
  {[field |-> "massKg", type |-> "number", value |-> "0"],
   [field |-> "Efp", type |-> "percent", value |-> "0"]}

\* The files chosen for an upload, by kind: the two templates, an empty file.
UploadFiles ==
  [bom |-> {generateBomTemplateCsv, <<>>},
   factors |-> {generateInputFactorsTemplateCsv}]

ExportTypes == {"results"}

\* A click on the compute button, which is disabled while the table is
\* empty.  The inputs of the product form are not part of the sources:
\* whether they pass validateAllProductInputs is an input of the step.
HandleComputation_ClearOnFailure ==
  \E productValid \in BOOLEAN :
    \E validation \in {validateComponents(components)} :
      /\ Len(components) > 0
      /\ IF ~productValid
           THEN /\ ui' = [ui EXCEPT !.status =
                            setStatus("Fix the highlighted product parameters before computing.",
                                      "error", <<>>)]
                /\ UNCHANGED components
         ELSE IF ~validation.valid
           THEN /\ ui' = [ui EXCEPT !.status =
                            setStatus("Please resolve the highlighted issues before computing.",
                                      "error", <<>>)]
                /\ UNCHANGED components
         ELSE \E call \in {computeCircularityIndicators(components, productParams)} :
                /\ components' = InputsAfter(components)
                /\ IF call.thrown
                     THEN ui' = [ui EXCEPT !.lastComputation = Null,
                                           !.status = setStatus(call.message, "error",
                                                                <<call.id>>)]
                     ELSE ui' = [ui EXCEPT
                                   !.lastComputation = call.value,
                                   !.charts = updateCharts(call.value.components,
                                                           call.value.PCI,
                                                           ui.sortDescending),
                                   !.status = setStatus("Computed PCI = for components.",
                                                        "success",
                                                        <<call.value.PCI,
                                                          Len(call.value.components)>>)]
      /\ UNCHANGED <<productParams, outcome, upload>>

HandleComputation ==
  \E productValid \in BOOLEAN :
    \E validation \in {validateComponents(components)} :
      /\ Len(components) > 0
      /\ IF ~productValid
           THEN /\ ui' = [ui EXCEPT !.status =
                            setStatus("Fix the highlighted product parameters before computing.",
                                      "error", <<>>)]
                /\ UNCHANGED components
         ELSE IF ~validation.valid
           THEN /\ ui' = [ui EXCEPT !.status =
                            setStatus("Please resolve the highlighted issues before computing.",
                                      "error", <<>>)]
                /\ UNCHANGED components
         ELSE \E call \in {computeCircularityIndicators(components, productParams)} :
                /\ components' = InputsAfter(components)
                /\ IF call.thrown
                     THEN ui' = [ui EXCEPT !.status = setStatus(call.message, "error",
                                                                <<call.id>>)]
                     ELSE ui' = [ui EXCEPT
                                   !.lastComputation = call.value,
                                   !.charts = updateCharts(call.value.components,
                                                           call.value.PCI,
                                                           ui.sortDescending),
                                   !.status = setStatus("Computed PCI = for components.",
                                                        "success",
                                                        <<call.value.PCI,
                                                          Len(call.value.components)>>)]
      /\ UNCHANGED <<productParams, outcome, upload>>

\* handleExport(type) for the types 'bom' and 'results'.
handleExport(type) ==
  /\ UNCHANGED <<components, productParams, outcome, upload>>
  /\ IF Len(components) = 0
       THEN ui' = [ui EXCEPT !.status =
                     setStatus("No components available to export.", "error", <<>>)]
     ELSE IF type = "bom"
       THEN ui' = [ui EXCEPT !.download =
                     downloadTextFile("bom_current.csv",
                                      exportComponentsToBomCsv(components))]
     ELSE IF ui.lastComputation = Null
       THEN ui' = [ui EXCEPT !.status =
                     setStatus("Run a calculation before exporting results.",
                               "error", <<>>)]
     ELSE ui' = [ui EXCEPT !.download =
                   downloadTextFile("circularity_results.csv",
                                    exportResultsCsv(ui.lastComputation.components))]

HandleExport == \E type \in ExportTypes : handleExport(type)

toggleChartSorting(metric) ==
  /\ UNCHANGED <<components, productParams, outcome, upload>>
  /\ IF ui.lastComputation = Null
       THEN ui' = [ui EXCEPT !.status =
                     setStatus("Run a calculation before sorting charts.", "error", <<>>)]
       ELSE \E flags \in {[ui.sortDescending EXCEPT ![metric] = ~@]} :
              ui' = [ui EXCEPT
                       !.sortDescending = flags,
                       !.charts = updateCharts(ui.lastComputation.components,
                                               ui.lastComputation.PCI, flags)]

ToggleChartSorting == \E metric \in {"cci", "cii"} : toggleChartSorting(metric)

\* An input event on a cell of the component table.
HandleTableInput ==
  \E index \in EditedRows \cap DOMAIN components : \E edit \in TableEdits :
    /\ components' =
         [components EXCEPT ![index][edit.field] =
            IF edit.type = "percent" THEN percentToFraction(edit.value)
            ELSE IF edit.type = "number" THEN CellNumber(edit.value)
            ELSE edit.value]
    /\ UNCHANGED <<productParams, outcome, upload, ui>>

\* A click on a row's delete button: splice(index, 1).
HandleTableClick ==
  \E index \in EditedRows \cap DOMAIN components :
    /\ components' = [i \in 1..(Len(components) - 1) |->
                        IF i < index THEN components[i] ELSE components[i + 1]]
    /\ UNCHANGED <<productParams, outcome, upload, ui>>

\* A click on the button that restores the example.
ResetExample ==
  /\ components' = exampleComponents
  /\ ui' = [ui EXCEPT !.status = setStatus("Restored the example data set.", "info", <<>>)]
  /\ UNCHANGED <<productParams, outcome, upload>>

\* handleCsvUpload(type, file) with the reader's onload: one step.
handleCsvUpload(type, file) ==
  /\ IF type = "bom"
       THEN \E parsed \in {parseBomCsv(file)} :
              IF parsed.thrown
                THEN /\ ui' = [ui EXCEPT !.status =
                                 setStatus(parsed.message, "error", <<parsed.id>>)]
                     /\ UNCHANGED components
                ELSE /\ components' = mergeBomData(components, parsed.value)
                     /\ ui' = [ui EXCEPT !.status =
                                 setStatus("Parsed BoM rows.", "success",
                                           <<Len(parsed.value)>>)]
       ELSE \E parsed \in {parseInputFactorsCsv(file)} :
              IF parsed.thrown
                THEN /\ ui' = [ui EXCEPT !.status =
                                 setStatus(parsed.message, "error", <<parsed.id>>)]
                     /\ UNCHANGED components
                ELSE \E applied \in {applyFactorCombosFromCsv(components, parsed.value)} :
                       IF applied.thrown
                         THEN /\ ui' = [ui EXCEPT !.status =
                                          setStatus(applied.message, "error",
                                                    <<applied.id>>)]
                              /\ UNCHANGED components
                         ELSE /\ components' = applied.value
                              /\ ui' = [ui EXCEPT !.status =
                                          setStatus("Parsed input-factor rows.", "success",
                                                    <<Cardinality(DOMAIN parsed.value)>>)]
  /\ UNCHANGED <<productParams, outcome, upload>>

HandleCsvUpload ==
  \E type \in DOMAIN UploadFiles : \E file \in UploadFiles[type] :
    handleCsvUpload(type, file)

\* The timer setStatus starts: the status line falls back to its default.
StatusTimeout ==
  /\ ui' = [ui EXCEPT !.status = setStatus(DEFAULT_STATUS_MESSAGE, "", <<>>)]
  /\ UNCHANGED <<components, productParams, outcome, upload>>

NextUi ==
  \/ HandleComputation
  \/ HandleExport
  \/ ToggleChartSorting
  \/ HandleTableInput
  \/ HandleTableClick
  \/ ResetExample
  \/ HandleCsvUpload
  \/ StatusTimeout

SpecUi == InitUi /\ [][NextUi]_vars

---------------------------------------------------------------------------
(* The last computation *)

\* The results file of the stored computation.
ResultsFile ==
  downloadTextFile("circularity_results.csv",
                   exportResultsCsv(ui.lastComputation.components))

\* A step that replaces lastComputation is a click on compute with a table
\* that passes validation and a core call that returns; what it stores is
\* what that call returned.
ReplacedBySuccess ==
  ui'.lastComputation # ui.lastComputation =>
    /\ Len(components) > 0
    /\ validateComponents(components).valid
    /\ \E call \in {computeCircularityIndicators(components, productParams)} :
         /\ ~call.thrown
         /\ ui'.lastComputation = call.value

\* A refused request: an error on the status line, nothing else changed.
Refused ==
  /\ ui'.status.type = "error"
  /\ ui' = [ui EXCEPT !.status = ui'.status]

\* An export that offers the results file of the stored computation.
ExportUsesLast ==
  /\ ui'.download = ResultsFile
  /\ ui' = [ui EXCEPT !.download = ResultsFile]

\* Chart sorting is refused exactly while nothing is stored, and otherwise
\* flips the flag and redraws the charts from the stored computation.
SortingUsesLast ==
  \A metric \in {"cci", "cii"} :
    toggleChartSorting(metric) =>
      IF ui.lastComputation = Null THEN Refused
      ELSE /\ ui'.sortDescending[metric] = ~ui.sortDescending[metric]
           /\ ui'.charts = updateCharts(ui.lastComputation.components,
                                        ui.lastComputation.PCI, ui'.sortDescending)
           /\ ui'.status = ui.status

\* C30 as the claim states it: lastComputation starts as null and is
\* replaced only by a successful computation; results export and chart
\* sorting are refused exactly while it is null and use it otherwise.
C30_RefusedExactlyBeforeSuccess ==
  /\ ui.lastComputation = Null
  /\ [][/\ ReplacedBySuccess
        /\ SortingUsesLast
        /\ handleExport("results") =>
             IF ui.lastComputation = Null THEN Refused ELSE ExportUsesLast]_vars

\* C30: lastComputation starts as null and is replaced only by a successful
\* computation, so no failed or rejected computation, edit, deletion, reset
\* or import changes it; chart sorting is refused exactly while it is null
\* and results export exactly while it is null or the component table is
\* empty, and otherwise both use the stored computation.
C30_LastComputation ==
  /\ ui.lastComputation = Null
  /\ [][/\ ReplacedBySuccess
        /\ SortingUsesLast
        /\ handleExport("results") =>
             IF ui.lastComputation = Null \/ Len(components) = 0
               THEN Refused ELSE ExportUsesLast]_vars

\* After a computation of the whole example a row was deleted, a further
\* computation was rejected by validation, and the charts in descending CCI
\* order and the results file on offer are those of the stored computation.
C30_Witness ==
  /\ ui.lastComputation # Null
  /\ Len(ui.lastComputation.components) = 3
  /\ Len(components) = 2
  /\ ~validateComponents(components).valid
  /\ ui.status.message = "Please resolve the highlighted issues before computing."
  /\ ui.sortDescending.cci
  /\ ui.charts = updateCharts(ui.lastComputation.components, ui.lastComputation.PCI,
                              ui.sortDescending)
  /\ ui.charts.cci.components # ui.lastComputation.components
  /\ ui.download = ResultsFile

\* A computation is stored, every row has been deleted, and the export was
\* refused for want of components.
C30_WitnessEmptyTable ==
  /\ ui.lastComputation # Null
  /\ components = <<>>
  /\ ui.status.message = "No components available to export."

\* A computation is stored and a later one failed inside the core.
C30_WitnessFailedLater ==
  /\ ui.lastComputation # Null
  /\ ui.status.type = "error"
  /\ ui.status.message \notin
       {"Please resolve the highlighted issues before computing.",
        "Fix the highlighted product parameters before computing.",
        "No components available to export.",
        "CSV appears to be empty."}
=============================================================================
